---- MODULE Spec2Model ----
(***************************************************************************)
(* Model of the retrieval-augmented query pipeline of the documentation    *)
(* assistant: the document chunker (pdf/chunker.py), the reranker and      *)
(* context selection (core/query_processor.py), the citation resolver and  *)
(* confidence estimate (core/response_formatter.py) and the orchestrator   *)
(* (core/rag_pipeline.py).                                                 *)
(*                                                                         *)
(* Texts of the block chunker are modelled by their lengths (the chunker   *)
(* reads a block's text only through strip(), len() and " ".join()); the   *)
(* plain-text chunker works on sequences of characters.  Scores are exact  *)
(* rationals kept as integers over a fixed denominator (see the units      *)
(* below), so that a score of exactly 0.3 is a state of the model.         *)
(***************************************************************************)
EXTENDS Integers, Sequences, FiniteSets, TLC

(***************************************************************************)
(* Bounds of the model.                                                    *)
(***************************************************************************)
MaxBlocks == 3
MaxChunkSize == 2
MaxOverlap == 2
MaxTextLen == 7

VARIABLES
  \* ---- DocumentChunker (pdf/chunker.py) ----
  chunk_size,            \* self.chunk_size (tokens)
  chunk_overlap,         \* self.chunk_overlap (tokens)
  extracted_blocks,      \* the argument of chunk_document
  blocks,                \* the normalized blocks
  block_pos,             \* position of the for loop of _build_chunks
  current_chunk_blocks,  \* the window: indices into blocks
  current_token_count,
  chunk_index,
  chunks,                \* the chunks emitted by the block path
  closes,                \* log of the windows closed and the seeds taken from them
  text_in,               \* the argument of chunk_text
  text_chunks,           \* the chunks emitted by the plain-text path
  chunking_result,       \* the ChunkingResult chunk_document returned
  ck_pc,
  \* ---- ResponseFormatter._extract_citations (core/response_formatter.py) ----
  cite_answer,           \* the answer text, a sequence of characters
  cite_sources,          \* the context chunks
  cite_result,           \* the citations returned
  cite_pc,
  \* ---- ResponseFormatter.calculate_confidence ----
  conf_sources,
  conf_rerank_scores,    \* None, or a list of scores
  conf_result,
  conf_pc,
  \* ---- QueryProcessor and RAGPipeline (core/query_processor.py, core/rag_pipeline.py) ----
  top_k_chunks,          \* self.top_k_chunks
  similarity_threshold,  \* self.similarity_threshold
  index_categories,      \* the vector index: what list_categories returns
  index_items,           \* the vector index: the stored items of each category, nearest first
  q_message,             \* the arguments of process_chat_message
  q_category,
  q_history,
  q_memory_enabled,
  enriched_query,
  categories,            \* _search_vector_store: the categories listed
  category_pos,          \* _search_vector_store: position of the loop over them
  category_results,      \* _search_vector_store: the results of each category searched
  searches,              \* log of the calls of VectorService.search
  all_results,
  reranked_results,
  context_chunks,
  llm_calls,             \* number of calls of the language model
  llm_result,            \* what _generate_response returned
  response,              \* the ChatResponse returned
  q_pc,
  \* ---- EmbeddingService.embed_texts (services/embedding_service.py) ----
  emb_texts,             \* the argument of embed_texts
  emb_outcomes,          \* what the embedding API does for each text
  emb_result,            \* what embed_texts returned
  emb_pc,
  \* ---- the chat store (api/chat.py) ----
  conversations,         \* the module's dict: conversation id -> list of ChatMessage
  chat_request,          \* the ChatRequest being served
  chat_serial,           \* number of send_message requests received
  chat_pc,
  \* ---- the document catalog (api/documents.py) ----
  document_catalog,      \* the module's dict: document id -> document_info
  settings_bound,        \* whether the module's global name settings is bound
  doc_serial,            \* number of documents uploaded
  doc_result             \* the outcome of the last request

chunkerVars == <<chunk_size, chunk_overlap, extracted_blocks, blocks, block_pos,
                 current_chunk_blocks, current_token_count, chunk_index, chunks,
                 closes, text_in, text_chunks, chunking_result, ck_pc>>

citeVars == <<cite_answer, cite_sources, cite_result, cite_pc>>

confVars == <<conf_sources, conf_rerank_scores, conf_result, conf_pc>>

configVars == <<top_k_chunks, similarity_threshold, index_categories, index_items,
                q_message, q_category, q_history, q_memory_enabled>>

queryVars == <<configVars, enriched_query, categories, category_pos, category_results,
               searches, all_results, reranked_results, context_chunks, llm_calls,
               llm_result, response, q_pc>>

embedVars == <<emb_texts, emb_outcomes, emb_result, emb_pc>>

chatVars == <<conversations, chat_request, chat_serial, chat_pc>>

docVars == <<document_catalog, settings_bound, doc_serial, doc_result>>

apiVars == <<embedVars, chatVars, docVars>>

vars == <<chunkerVars, citeVars, confVars, queryVars, apiVars>>

notChunkerVars == <<citeVars, confVars, queryVars, apiVars>>
notCiteVars == <<chunkerVars, confVars, queryVars, apiVars>>
notConfVars == <<chunkerVars, citeVars, queryVars, apiVars>>
notQueryVars == <<chunkerVars, citeVars, confVars, apiVars>>

(***************************************************************************)
(* A component that takes no part in a specification stays idle.           *)
(***************************************************************************)
NoChunkingResult == [returned |-> FALSE]

ChunkerIdle ==
  /\ chunking_result = NoChunkingResult
  /\ chunk_size = 0 /\ chunk_overlap = 0
  /\ extracted_blocks = <<>> /\ blocks = <<>> /\ block_pos = 0
  /\ current_chunk_blocks = <<>> /\ current_token_count = 0 /\ chunk_index = 0
  /\ chunks = <<>> /\ closes = <<>>
  /\ text_in = <<>> /\ text_chunks = <<>>
  /\ ck_pc = "idle"

CiteIdle ==
  cite_answer = <<>> /\ cite_sources = <<>> /\ cite_result = {} /\ cite_pc = "idle"

ConfIdle ==
  /\ conf_sources = <<>> /\ conf_rerank_scores = <<>> /\ conf_result = 0
  /\ conf_pc = "idle"

NoResponse == [returned |-> FALSE]
NoLLMResult == [generated |-> FALSE]

\* the locals of a request before its first step
QueryLocalsClear ==
  /\ categories = <<>> /\ category_pos = 0 /\ category_results = <<>>
  /\ searches = <<>> /\ reranked_results = <<>> /\ context_chunks = <<>>
  /\ llm_calls = 0 /\ llm_result = NoLLMResult /\ response = NoResponse

QueryIdle ==
  /\ top_k_chunks = 0 /\ similarity_threshold = 0
  /\ index_categories = <<>> /\ index_items = <<>>
  /\ q_message = <<>> /\ q_category = "" /\ q_history = <<>> /\ q_memory_enabled = FALSE
  /\ enriched_query = <<>> /\ all_results = <<>>
  /\ QueryLocalsClear
  /\ q_pc = "idle"

NoEmbeddings == [returned |-> FALSE]

EmbedIdle ==
  emb_texts = <<>> /\ emb_outcomes = <<>> /\ emb_result = NoEmbeddings /\ emb_pc = "idle"

NoRequest == [served |-> FALSE]

ChatIdle ==
  conversations = <<>> /\ chat_request = NoRequest /\ chat_serial = 0 /\ chat_pc = "idle"

DocsIdle ==
  /\ document_catalog = <<>> /\ settings_bound = FALSE /\ doc_serial = 0
  /\ doc_result = NoRequest

ApiIdle == EmbedIdle /\ ChatIdle /\ DocsIdle

(***************************************************************************)
(* Generic helpers.                                                        *)
(***************************************************************************)
Min(a, b) == IF a <= b THEN a ELSE b
Max(a, b) == IF a >= b THEN a ELSE b

SeqsUpTo(S, n) == UNION {[1..k -> S] : k \in 0..n}

RECURSIVE SumSeq(_)
SumSeq(s) == IF s = <<>> THEN 0 ELSE Head(s) + SumSeq(Tail(s))

(***************************************************************************)
(* DocumentChunker: the block path.                                        *)
(*                                                                         *)
(* An extracted block's text is [core, pad]: core characters that strip()  *)
(* keeps and pad whitespace characters around them that it removes.  A     *)
(* whitespace-only block has core = 0 and pad > 0.                         *)
(***************************************************************************)
BlockTexts == {[core |-> 0, pad |-> 2], [core |-> 4, pad |-> 0],
               [core |-> 8, pad |-> 1], [core |-> 13, pad |-> 0]}
Pages == {1, 2}
ExtractedBlockSet == [text : BlockTexts, page_number : Pages]

\* len(text.strip())
StripLen(text) == text.core

\* an estimate that rounds up
EstimateTokensRoundedUp(length) == (length + 3) \div 4

\* _estimate_tokens: len(text) // 4
EstimateTokens(length) == length \div 4

\* _normalize_blocks: the text is stripped, the page number kept
NormalizeBlocks(ebs) ==
  [i \in DOMAIN ebs |-> [len |-> StripLen(ebs[i].text),
                         page_number |-> ebs[i].page_number]]

BlockTokens(i) == EstimateTokens(blocks[i].len)

\* sum(self._estimate_tokens(b["text"]) for b in window)
WindowTokens(window) == SumSeq([k \in DOMAIN window |-> BlockTokens(window[k])])

\* _get_overlap_blocks: scan the window backwards, keep a block while the
\* accumulated estimate stays within the budget, stop at the first that does not
RECURSIVE OverlapScan(_, _, _, _, _)
OverlapScan(window, k, max_overlap_tokens, overlap_blocks, current_tokens) ==
  IF k = 0 THEN overlap_blocks
  ELSE LET block_tokens == BlockTokens(window[k]) IN
       IF current_tokens + block_tokens <= max_overlap_tokens
       THEN OverlapScan(window, k - 1, max_overlap_tokens,
                        <<window[k]>> \o overlap_blocks,
                        current_tokens + block_tokens)
       ELSE overlap_blocks

\* a scan that skips a block over the budget and goes on (continue for break)
RECURSIVE OverlapScanSkipping(_, _, _, _, _)
OverlapScanSkipping(window, k, max_overlap_tokens, overlap_blocks, current_tokens) ==
  IF k = 0 THEN overlap_blocks
  ELSE LET block_tokens == BlockTokens(window[k]) IN
       IF current_tokens + block_tokens <= max_overlap_tokens
       THEN OverlapScanSkipping(window, k - 1, max_overlap_tokens,
                                <<window[k]>> \o overlap_blocks,
                                current_tokens + block_tokens)
       ELSE OverlapScanSkipping(window, k - 1, max_overlap_tokens,
                                overlap_blocks, current_tokens)

GetOverlapBlocksSkipping(window, max_overlap_tokens) ==
  OverlapScanSkipping(window, Len(window), max_overlap_tokens, <<>>, 0)

\* a scan that appends each block it keeps, where the code inserts it in front
RECURSIVE OverlapScanAppending(_, _, _, _, _)
OverlapScanAppending(window, k, max_overlap_tokens, overlap_blocks, current_tokens) ==
  IF k = 0 THEN overlap_blocks
  ELSE LET block_tokens == BlockTokens(window[k]) IN
       IF current_tokens + block_tokens <= max_overlap_tokens
       THEN OverlapScanAppending(window, k - 1, max_overlap_tokens,
                                 Append(overlap_blocks, window[k]),
                                 current_tokens + block_tokens)
       ELSE overlap_blocks

GetOverlapBlocksAppending(window, max_overlap_tokens) ==
  OverlapScanAppending(window, Len(window), max_overlap_tokens, <<>>, 0)

GetOverlapBlocks(window, max_overlap_tokens) ==
  OverlapScan(window, Len(window), max_overlap_tokens, <<>>, 0)

\* len(" ".join(b["text"] for b in window))
CombinedLen(window) ==
  SumSeq([k \in DOMAIN window |-> blocks[window[k]].len]) + (Len(window) - 1)

\* page_numbers.count(p)
PageCount(window, p) ==
  Cardinality({k \in DOMAIN window : blocks[window[k]].page_number = p})

\* max(set(page_numbers), key=page_numbers.count): max keeps the first maximal
\* element of the iteration; a set of small integers iterates in ascending order
ModePage(window) ==
  LET ps == {blocks[window[k]].page_number : k \in DOMAIN window}
      best == {p \in ps : \A r \in ps : PageCount(window, r) <= PageCount(window, p)}
  IN CHOOSE p \in best : \A r \in best : p <= r

\* _create_chunk
CreateChunk(window, index) ==
  [window |-> window,
   text_len |-> CombinedLen(window),
   token_count |-> EstimateTokens(CombinedLen(window)),
   page_number |-> ModePage(window),
   chunk_index |-> index]

\* DocumentChunker(chunk_size, chunk_overlap) and a call of chunk_document
InitBlocks ==
  /\ chunk_size \in 1..MaxChunkSize
  /\ chunk_overlap \in 0..MaxOverlap
  /\ extracted_blocks \in SeqsUpTo(ExtractedBlockSet, MaxBlocks)
  /\ blocks = <<>> /\ block_pos = 0
  /\ current_chunk_blocks = <<>> /\ current_token_count = 0 /\ chunk_index = 0
  /\ chunks = <<>> /\ closes = <<>>
  /\ text_in = <<>> /\ text_chunks = <<>>
  /\ chunking_result = NoChunkingResult
  /\ ck_pc = "normalize"

\* chunk_document, line 60: blocks = self._normalize_blocks(extracted_blocks)
Normalize ==
  /\ ck_pc = "normalize"
  /\ blocks' = NormalizeBlocks(extracted_blocks)
  /\ block_pos' = 1
  /\ ck_pc' = "build"
  /\ UNCHANGED <<chunk_size, chunk_overlap, extracted_blocks, current_chunk_blocks,
                 current_token_count, chunk_index, chunks, closes, text_in, text_chunks,
                 chunking_result>>
  /\ UNCHANGED notChunkerVars

\* _build_chunks: one iteration of "for block in blocks"
BuildStep ==
  /\ ck_pc = "build"
  /\ block_pos <= Len(blocks)
  /\ LET block_tokens == BlockTokens(block_pos)
         closing == current_token_count + block_tokens > chunk_size
                      /\ current_chunk_blocks # <<>>
         seed == GetOverlapBlocks(current_chunk_blocks, chunk_overlap)
     IN /\ chunks' = IF closing
                     THEN Append(chunks, CreateChunk(current_chunk_blocks, chunk_index))
                     ELSE chunks
        /\ chunk_index' = IF closing THEN chunk_index + 1 ELSE chunk_index
        /\ closes' = IF closing
                     THEN Append(closes, [window |-> current_chunk_blocks, seed |-> seed])
                     ELSE closes
        /\ current_chunk_blocks' =
             Append(IF closing THEN seed ELSE current_chunk_blocks, block_pos)
        /\ current_token_count' =
             (IF closing THEN WindowTokens(seed) ELSE current_token_count) + block_tokens
  /\ block_pos' = block_pos + 1
  /\ UNCHANGED <<chunk_size, chunk_overlap, extracted_blocks, blocks, text_in,
                 text_chunks, chunking_result, ck_pc>>
  /\ UNCHANGED notChunkerVars

\* _create_chunk reads blocks[0] and takes max() over the pages of the window:
\* both raise on an empty window
CreateChunkRaises(window) == window = <<>>

\* a last chunk made whatever the window holds
HasLastChunkAlways(window) == TRUE

\* "if current_chunk_blocks:", the test before the last chunk
HasLastChunk(window) == window # <<>>

\* chunk_document: total_chunks = len(chunks), total_tokens = sum of the counts
ChunkingResultOf(cs) ==
  [returned |-> TRUE,
   total_chunks |-> Len(cs),
   total_tokens |-> SumSeq([i \in DOMAIN cs |-> cs[i].token_count])]

\* _build_chunks after the loop: "Don't forget the last chunk", then return;
\* chunk_document builds its ChunkingResult from the chunks
BuildFinish ==
  /\ ck_pc = "build"
  /\ block_pos = Len(blocks) + 1
  /\ IF HasLastChunk(current_chunk_blocks) /\ CreateChunkRaises(current_chunk_blocks)
     THEN /\ ck_pc' = "raised"
          /\ UNCHANGED <<chunks, chunking_result>>
     ELSE /\ chunks' = IF HasLastChunk(current_chunk_blocks)
                       THEN Append(chunks, CreateChunk(current_chunk_blocks, chunk_index))
                       ELSE chunks
          /\ chunking_result' = ChunkingResultOf(chunks')
          /\ ck_pc' = "done"
  /\ UNCHANGED <<chunk_size, chunk_overlap, extracted_blocks, blocks, block_pos,
                 current_chunk_blocks, current_token_count, chunk_index, closes,
                 text_in, text_chunks>>
  /\ UNCHANGED notChunkerVars

(***************************************************************************)
(* DocumentChunker: the plain-text fallback, on sequences of characters.   *)
(***************************************************************************)
Chars == {"a", " ", "\n"}
IsSpace(c) == c \in {" ", "\n"}

\* str.strip()
RECURSIVE LStrip(_)
LStrip(s) == IF s # <<>> /\ IsSpace(Head(s)) THEN LStrip(Tail(s)) ELSE s

RECURSIVE RStrip(_)
RStrip(s) ==
  IF s # <<>> /\ IsSpace(s[Len(s)]) THEN RStrip(SubSeq(s, 1, Len(s) - 1)) ELSE s

Strip(s) == RStrip(LStrip(s))

\* text.split("\n\n"): the pieces between non-overlapping separators, left to
\* right, empty pieces kept
RECURSIVE SplitParagraphs(_, _)
SplitParagraphs(s, piece) ==
  IF s = <<>> THEN <<piece>>
  ELSE IF Len(s) >= 2 /\ s[1] = "\n" /\ s[2] = "\n"
       THEN <<piece>> \o SplitParagraphs(SubSeq(s, 3, Len(s)), <<>>)
       ELSE SplitParagraphs(Tail(s), Append(piece, Head(s)))

\* text.split(): the maximal runs of non-whitespace characters
RECURSIVE SplitWords(_, _)
SplitWords(s, word) ==
  IF s = <<>> THEN (IF word = <<>> THEN <<>> ELSE <<word>>)
  ELSE IF IsSpace(Head(s))
       THEN (IF word = <<>> THEN <<>> ELSE <<word>>) \o SplitWords(Tail(s), <<>>)
       ELSE SplitWords(Tail(s), Append(word, Head(s)))

\* " ".join(words)
RECURSIVE JoinWords(_)
JoinWords(words) ==
  IF words = <<>> THEN <<>>
  ELSE IF Len(words) = 1 THEN words[1]
       ELSE words[1] \o <<" ">> \o JoinWords(Tail(words))

\* DocumentChunk(text=..., chunk_index=..., token_count=...) of the text path
TextChunk(text, index, counted) ==
  [text |-> text, chunk_index |-> index, token_count |-> EstimateTokens(Len(counted))]

\* _split_large_paragraph: the loop over the words, then the final chunk
RECURSIVE SplitLargeLoop(_, _, _, _, _)
SplitLargeLoop(words, current_chunk, current_length, start_index, out) ==
  IF words = <<>>
  THEN IF current_chunk # <<>>
       THEN Append(out, TextChunk(JoinWords(current_chunk), start_index,
                                  JoinWords(current_chunk)))
       ELSE out
  ELSE LET word == Head(words) IN
       IF current_length + Len(word) > chunk_size * 4
       THEN SplitLargeLoop(Tail(words), <<word>>, Len(word), start_index + 1,
                           Append(out, TextChunk(JoinWords(current_chunk), start_index,
                                                 JoinWords(current_chunk))))
       ELSE SplitLargeLoop(Tail(words), Append(current_chunk, word),
                           current_length + Len(word) + 1, start_index, out)

SplitLargeParagraph(text, start_index) ==
  SplitLargeLoop(SplitWords(text, <<>>), <<>>, 0, start_index, <<>>)

\* chunk_text: the loop over the paragraphs, then the final chunk
RECURSIVE ChunkTextLoop(_, _, _, _)
ChunkTextLoop(paragraphs, current_text, index, out) ==
  IF paragraphs = <<>>
  THEN IF current_text # <<>>
       THEN Append(out, TextChunk(Strip(current_text), index, current_text))
       ELSE out
  ELSE LET para == Strip(Head(paragraphs))
           rest == Tail(paragraphs)
       IN IF para = <<>> THEN ChunkTextLoop(rest, current_text, index, out)
          ELSE IF Len(current_text) + Len(para) > chunk_size * 4
               THEN IF current_text # <<>>
                    THEN ChunkTextLoop(rest, para, index + 1,
                           Append(out, TextChunk(Strip(current_text), index, current_text)))
                    ELSE LET para_chunks == SplitLargeParagraph(para, index)
                         IN ChunkTextLoop(rest, current_text, index + Len(para_chunks),
                                          out \o para_chunks)
               ELSE ChunkTextLoop(rest,
                      (IF current_text # <<>> THEN current_text \o <<"\n", "\n">>
                                             ELSE current_text) \o para,
                      index, out)

ChunkTextResult(text) == ChunkTextLoop(SplitParagraphs(text, <<>>), <<>>, 0, <<>>)

\* DocumentChunker(chunk_size, chunk_overlap) and a call of chunk_text
InitText ==
  /\ chunk_size \in 1..MaxChunkSize
  /\ chunk_overlap = 0   \* chunk_text never reads it
  /\ text_in \in SeqsUpTo(Chars, MaxTextLen)
  /\ extracted_blocks = <<>> /\ blocks = <<>> /\ block_pos = 0
  /\ current_chunk_blocks = <<>> /\ current_token_count = 0 /\ chunk_index = 0
  /\ chunks = <<>> /\ closes = <<>>
  /\ text_chunks = <<>>
  /\ chunking_result = NoChunkingResult
  /\ ck_pc = "text"

\* chunk_text(text, ...)
ChunkText ==
  /\ ck_pc = "text"
  /\ text_chunks' = ChunkTextResult(text_in)
  /\ ck_pc' = "done"
  /\ UNCHANGED <<chunk_size, chunk_overlap, extracted_blocks, blocks, block_pos,
                 current_chunk_blocks, current_token_count, chunk_index, chunks,
                 closes, text_in, chunking_result>>
  /\ UNCHANGED notChunkerVars

InitChunker == (InitBlocks \/ InitText) /\ CiteIdle /\ ConfIdle /\ QueryIdle /\ ApiIdle
NextChunker == Normalize \/ BuildStep \/ BuildFinish \/ ChunkText
SpecChunker == InitChunker /\ [][NextChunker]_vars

(***************************************************************************)
(* Properties of the chunker.                                              *)
(***************************************************************************)

\* C7: no chunk is emitted with empty text, neither by the block path
\* (chunk_document/_build_chunks) nor by the plain-text fallback
\* (chunk_text/_split_large_paragraph).
C7_NoEmptyChunkText ==
  /\ \A i \in DOMAIN chunks : chunks[i].text_len > 0
  /\ \A i \in DOMAIN text_chunks : text_chunks[i].text # <<>>

\* C8: every chunk of the block chunker is size-bounded: the estimated tokens
\* of the blocks of its window sum to at most chunk_size, unless the chunk
\* consists of exactly one block.
C8_ChunkSizeBounded ==
  \A i \in DOMAIN chunks :
    \/ Len(chunks[i].window) = 1
    \/ WindowTokens(chunks[i].window) <= chunk_size

\* C9: a chunk that contains a block whose own estimate exceeds chunk_size
\* contains no other block.
C9_OversizeBlockAlone ==
  \A i \in DOMAIN chunks :
    \A k \in DOMAIN chunks[i].window :
      BlockTokens(chunks[i].window[k]) > chunk_size => Len(chunks[i].window) = 1

IsSuffix(s, w) ==
  /\ Len(s) <= Len(w)
  /\ \A k \in DOMAIN s : s[k] = w[Len(w) - Len(s) + k]

IsPrefix(s, w) ==
  /\ Len(s) <= Len(w)
  /\ \A k \in DOMAIN s : s[k] = w[k]

\* the window that followed the j-th closed one
WindowAfterClose(j) ==
  IF j + 1 <= Len(chunks) THEN chunks[j + 1].window ELSE current_chunk_blocks

\* C10: whenever the block chunker closes a window, the blocks carried into
\* the next window are a contiguous suffix of the closed window whose token
\* estimates sum to at most chunk_overlap; the look-back stops at the first
\* block (scanning backward) that would push the sum above chunk_overlap, so
\* the seed is empty when the last block alone exceeds the budget.
C10_OverlapSeed ==
  \A j \in DOMAIN closes :
    LET w == closes[j].window
        s == closes[j].seed
    IN /\ w = chunks[j].window
       /\ IsSuffix(s, w)
       /\ WindowTokens(s) <= chunk_overlap
       /\ Len(s) < Len(w) =>
            WindowTokens(s) + BlockTokens(w[Len(w) - Len(s)]) > chunk_overlap
       /\ BlockTokens(w[Len(w)]) > chunk_overlap => s = <<>>
       /\ IsPrefix(s, WindowAfterClose(j))
       /\ Len(WindowAfterClose(j)) > Len(s)

\* a window of two blocks or more was closed and a proper, non-empty part of
\* it was carried over
C10_Witness ==
  \E j \in DOMAIN closes :
    /\ closes[j].seed # <<>>
    /\ Len(closes[j].seed) < Len(closes[j].window)
    /\ ck_pc = "done"

(***************************************************************************)
(* ResponseFormatter._extract_citations, on an answer that is a sequence   *)
(* of characters.  A chunk's text is [base, len]: its content and its      *)
(* length; a prefix of it has the same base and a smaller len.  A chunk's  *)
(* metadata is a record that may lack keys.                                *)
(***************************************************************************)
MaxPieces == 3
MaxSources == 2
QuotedTextLen == 200

Digits == {"0", "1", "2"}

DigitValue(c) == CASE c = "0" -> 0 [] c = "1" -> 1 [] c = "2" -> 2

\* int(num) of a string of decimal digits
RECURSIVE IntOf(_)
IntOf(d) ==
  IF d = <<>> THEN 0
  ELSE 10 * IntOf(SubSeq(d, 1, Len(d) - 1)) + DigitValue(d[Len(d)])

\* the longest run of digits s starts with
RECURSIVE DigitRun(_)
DigitRun(s) ==
  IF s # <<>> /\ Head(s) \in Digits THEN <<Head(s)>> \o DigitRun(Tail(s)) ELSE <<>>

\* re.findall(r'\[(\d+)\]', answer): the digit groups of the non-overlapping
\* matches, left to right
RECURSIVE FindAllMarkers(_)
FindAllMarkers(s) ==
  IF s = <<>> THEN <<>>
  ELSE IF Head(s) = "["
       THEN LET run == DigitRun(Tail(s))
                after == SubSeq(s, Len(run) + 2, Len(s))
            IN IF run # <<>> /\ after # <<>> /\ Head(after) = "]"
               THEN <<run>> \o FindAllMarkers(Tail(after))
               ELSE FindAllMarkers(Tail(s))
       ELSE FindAllMarkers(Tail(s))

\* dict.get(key, default)
MetaGet(metadata, key, default) ==
  IF key \in DOMAIN metadata THEN metadata[key] ELSE default

\* text[:n]
Prefix(text, n) == [base |-> text.base, len |-> Min(text.len, n)]

\* the citation dict built for one cited number
Citation(num, source) ==
  [number |-> num,
   manual_name |-> MetaGet(source.metadata, "manual_name", "Unknown"),
   page_number |-> MetaGet(source.metadata, "page_number", 0),
   section |-> MetaGet(source.metadata, "section", "None"),
   quoted_text |-> Prefix(source.text, QuotedTextLen)]

\* _extract_citations: cited_numbers is a set of strings; one citation for each
\* of them whose 0-based index is within the sources.  The list is built in the
\* set's iteration order, which nothing fixes: the result is kept as a set.
ExtractCitations(answer, sources) ==
  LET found == FindAllMarkers(answer)
      cited_numbers == {found[i] : i \in DOMAIN found}
  IN {Citation(num, sources[IntOf(num)]) :
        num \in {n \in cited_numbers : 0 <= IntOf(n) - 1 /\ IntOf(n) - 1 < Len(sources)}}

AnswerPieces == {<<"x">>, <<"[", "1", "]">>, <<"[", "0", "1", "]">>, <<"[", "2", "]">>,
                 <<"[", "0", "]">>, <<"[">>, <<"1", "]">>}

RECURSIVE Flatten(_)
Flatten(pieces) == IF pieces = <<>> THEN <<>> ELSE Head(pieces) \o Flatten(Tail(pieces))

AnswerTexts == {Flatten(ps) : ps \in SeqsUpTo(AnswerPieces, MaxPieces)}

SourceKinds ==
  {[text |-> [base |-> "torque", len |-> 150],
    metadata |-> [manual_name |-> "Rover", page_number |-> 12, section |-> "Setup"]],
   [text |-> [base |-> "spindle", len |-> 260],
    metadata |-> [page_number |-> 4]]}

InitCitations ==
  /\ cite_answer \in AnswerTexts
  /\ cite_sources \in SeqsUpTo(SourceKinds, MaxSources)
  /\ cite_result = {}
  /\ cite_pc = "call"
  /\ ChunkerIdle /\ ConfIdle /\ QueryIdle /\ ApiIdle

\* a call of ResponseFormatter._extract_citations(answer, sources)
ExtractCitationsCall ==
  /\ cite_pc = "call"
  /\ cite_result' = ExtractCitations(cite_answer, cite_sources)
  /\ cite_pc' = "returned"
  /\ UNCHANGED <<cite_answer, cite_sources>>
  /\ UNCHANGED notCiteVars

NextCitations == ExtractCitationsCall
SpecCitations == InitCitations /\ [][NextCitations]_vars

\* the integers n that occur as a marker [n] in the answer
MarkedNumbers(answer) ==
  LET found == FindAllMarkers(answer) IN {IntOf(found[i]) : i \in DOMAIN found}

\* C5: _extract_citations returns exactly one citation for each distinct
\* integer n, 1 <= n <= k, that occurs as a marker [n] in the answer; the
\* citation carries the metadata of the n-th chunk and the first 200
\* characters of its text; no citation is produced for a marker with n = 0 or
\* n > k.
C5_OneCitationPerMarker ==
  cite_pc = "returned" =>
    LET k == Len(cite_sources)
        marked == MarkedNumbers(cite_answer)
    IN /\ \A n \in (1..k) \cap marked :
            /\ Cardinality({c \in cite_result : IntOf(c.number) = n}) = 1
            /\ \A c \in cite_result :
                 IntOf(c.number) = n =>
                   /\ c.manual_name = MetaGet(cite_sources[n].metadata, "manual_name", "Unknown")
                   /\ c.page_number = MetaGet(cite_sources[n].metadata, "page_number", 0)
                   /\ c.quoted_text = Prefix(cite_sources[n].text, QuotedTextLen)
       /\ \A c \in cite_result : IntOf(c.number) \in (1..k) \cap marked

(***************************************************************************)
(* ResponseFormatter.calculate_confidence.                                 *)
(*                                                                         *)
(* Units: a similarity is a multiple of 1/700, a rerank score a multiple   *)
(* of 1/21000, a confidence a multiple of 1/420000; with at most three     *)
(* terms in each average every value of the function is exact:             *)
(*   0.6 * (S/700)/n = (360/n) * S / 420000,                               *)
(*   0.3 * (R/21000)/m = (6/m) * R / 420000,   (S/700)/n = (600/n) * S / 420000. *)
(***************************************************************************)
MaxConfSources == 4
MaxConfScores == 3
ConfidenceCap == 399000
AgreementBonus == 42000
TopSources == 3

Take(s, n) == SubSeq(s, 1, Min(n, Len(s)))

NoScores == [given |-> FALSE, list |-> <<>>]

\* calculate_confidence, with the cap left out
CalculateConfidenceUncapped(sources, rerank_scores) ==
  IF sources = <<>> THEN 0
  ELSE LET top == Take(sources, TopSources)
           sum_similarity == SumSeq([i \in DOMAIN top |-> top[i].similarity])
           agreement_bonus == IF Len(sources) >= TopSources THEN AgreementBonus ELSE 0
           top_scores == Take(rerank_scores.list, TopSources)
       IN IF rerank_scores.given /\ rerank_scores.list # <<>>
          THEN (360 \div Len(top)) * sum_similarity
                 + (6 \div Len(top_scores)) * SumSeq(top_scores) + agreement_bonus
          ELSE (600 \div Len(top)) * sum_similarity + agreement_bonus

\* calculate_confidence, with the agreement bonus given above three sources only
CalculateConfidenceBonusAboveThree(sources, rerank_scores) ==
  IF sources = <<>> THEN 0
  ELSE LET top == Take(sources, TopSources)
           sum_similarity == SumSeq([i \in DOMAIN top |-> top[i].similarity])
           agreement_bonus == IF Len(sources) > TopSources THEN AgreementBonus ELSE 0
           top_scores == Take(rerank_scores.list, TopSources)
           confidence ==
             IF rerank_scores.given /\ rerank_scores.list # <<>>
             THEN (360 \div Len(top)) * sum_similarity
                    + (6 \div Len(top_scores)) * SumSeq(top_scores) + agreement_bonus
             ELSE (600 \div Len(top)) * sum_similarity + agreement_bonus
       IN Min(ConfidenceCap, confidence)

\* calculate_confidence(sources, rerank_scores)
CalculateConfidence(sources, rerank_scores) ==
  IF sources = <<>> THEN 0
  ELSE LET top == Take(sources, TopSources)
           sum_similarity == SumSeq([i \in DOMAIN top |-> top[i].similarity])
           agreement_bonus == IF Len(sources) >= TopSources THEN AgreementBonus ELSE 0
           top_scores == Take(rerank_scores.list, TopSources)
           confidence ==
             IF rerank_scores.given /\ rerank_scores.list # <<>>
             THEN (360 \div Len(top)) * sum_similarity
                    + (6 \div Len(top_scores)) * SumSeq(top_scores) + agreement_bonus
             ELSE (600 \div Len(top)) * sum_similarity + agreement_bonus
       IN Min(ConfidenceCap, confidence)

\* _generate_response: rerank_scores = [c.get("rerank_score", c.get("similarity", 0))
\* for c in context_chunks]; a similarity s/700 is the score 30 s/21000
ContextRerankScores(context) ==
  [given |-> TRUE,
   list |-> [i \in DOMAIN context |->
               IF "rerank_score" \in DOMAIN context[i] THEN context[i].rerank_score
               ELSE IF "similarity" \in DOMAIN context[i] THEN 30 * context[i].similarity
               ELSE 0]]

ConfSimilarities == {0, 350, 700}
ConfScores == {0, 25200}

\* six chunks of similarity 0.9, 0.85, 0.8, 0.3, 0.2 and 0.1 ...
ScenarioSimilarities == <<630, 595, 560, 210, 140, 70>>

\* ... with no keyword match, scored by _rerank_results in that order:
\* 0.7 * similarity + 0.1 * (0.1 - 0.01 * idx), in 1/21000
ScenarioRerankScores == <<13440, 12684, 11928, 4557, 3066, 1575>>

ScenarioContexts ==
  {[i \in DOMAIN ScenarioSimilarities |-> [similarity |-> ScenarioSimilarities[i]]],
   [i \in DOMAIN ScenarioSimilarities |->
      [similarity |-> ScenarioSimilarities[i], rerank_score |-> ScenarioRerankScores[i]]]}

InitConfidence ==
  /\ \/ /\ conf_sources \in SeqsUpTo([similarity : ConfSimilarities], MaxConfSources)
        /\ conf_rerank_scores \in
             {NoScores} \cup {[given |-> TRUE, list |-> l] :
                                l \in SeqsUpTo(ConfScores, MaxConfScores)}
     \/ /\ conf_sources \in ScenarioContexts
        /\ conf_rerank_scores \in {NoScores, ContextRerankScores(conf_sources)}
  /\ conf_result = 0
  /\ conf_pc = "call"
  /\ ChunkerIdle /\ CiteIdle /\ QueryIdle /\ ApiIdle

\* a call of ResponseFormatter.calculate_confidence(sources, rerank_scores)
CalculateConfidenceCall ==
  /\ conf_pc = "call"
  /\ conf_result' = CalculateConfidence(conf_sources, conf_rerank_scores)
  /\ conf_pc' = "returned"
  /\ UNCHANGED <<conf_sources, conf_rerank_scores>>
  /\ UNCHANGED notConfVars

NextConfidence == CalculateConfidenceCall
SpecConfidence == InitConfidence /\ [][NextConfidence]_vars

\* C3: for sources with similarities in [0,1] and rerank scores >= 0,
\* calculate_confidence returns a value in [0, 0.95]; for an empty source list
\* it returns exactly 0.0, with or without rerank scores.
C3_ConfidenceRange ==
  conf_pc = "returned" =>
    /\ 0 <= conf_result /\ conf_result <= ConfidenceCap
    /\ conf_sources = <<>> => conf_result = 0

\* a call whose blend of similarity, rerank score and bonus is above 0.95
C3_Witness ==
  /\ conf_pc = "returned"
  /\ Len(conf_sources) >= TopSources
  /\ conf_rerank_scores.given /\ conf_rerank_scores.list # <<>>
  /\ CalculateConfidenceUncapped(conf_sources, conf_rerank_scores) > ConfidenceCap
  /\ conf_result = ConfidenceCap

(***************************************************************************)
(* QueryProcessor: reranking and context selection.                        *)
(*                                                                         *)
(* Units: a similarity is a multiple of 1/700, a keyword score a multiple  *)
(* of 1/840 (exact for a query of at most 8 distinct words, which every    *)
(* query of the model is), a position bonus a multiple of 1/100 and a      *)
(* rerank score a multiple of 1/21000:                                     *)
(*   0.7 * (s/700) + 0.2 * (k/840) + 0.1 * (b/100) = (21 s + 5 k + 21 b) / 21000. *)
(***************************************************************************)
MaxCandidates == 6
ContextCap == 5
RerankFloor == 6300
TechTermLen == 6
PositionBonusTop == 10

UpperCase == <<"A", "B", "C", "D", "E", "F", "G", "H", "I", "J", "K", "L", "M", "N", "O", "P", "Q", "R", "S", "T", "U", "V", "W", "X", "Y", "Z">>
LowerCase == <<"a", "b", "c", "d", "e", "f", "g", "h", "i", "j", "k", "l", "m", "n", "o", "p", "q", "r", "s", "t", "u", "v", "w", "x", "y", "z">>

\* str.lower(), character by character
ToLower(c) ==
  IF \E i \in DOMAIN UpperCase : UpperCase[i] = c
  THEN LowerCase[CHOOSE i \in DOMAIN UpperCase : UpperCase[i] = c]
  ELSE c

LowerText(s) == [i \in DOMAIN s |-> ToLower(s[i])]

\* set(text.lower().split())
WordSet(text) ==
  LET words == SplitWords(LowerText(text), <<>>) IN {words[i] : i \in DOMAIN words}

\* a keyword score without the cap at 1.0
KeywordMatchScoreUncapped(query_words, text) ==
  IF query_words = {} THEN 0
  ELSE LET matches == query_words \cap WordSet(text)
           tech_term_matches == Cardinality({w \in matches : Len(w) > TechTermLen})
       IN (840 * Cardinality(matches)) \div Cardinality(query_words)
            + 84 * tech_term_matches

\* _keyword_match_score(query_words, text)
KeywordMatchScore(query_words, text) ==
  IF query_words = {} THEN 0
  ELSE LET matches == query_words \cap WordSet(text)
           tech_term_matches == Cardinality({w \in matches : Len(w) > TechTermLen})
       IN Min(840, (840 * Cardinality(matches)) \div Cardinality(query_words)
                     + 84 * tech_term_matches)

\* the score _rerank_results gives the result at 0-based position idx
RerankScore(similarity, keyword_score, idx) ==
  21 * similarity + 5 * keyword_score + 21 * Max(0, PositionBonusTop - idx)

\* an insertion that puts x before the elements of its own score
InsertByScoreUnstable(sorted, x) ==
  LET n == Cardinality({i \in DOMAIN sorted : sorted[i].rerank_score > x.rerank_score})
  IN SubSeq(sorted, 1, n) \o <<x>> \o SubSeq(sorted, n + 1, Len(sorted))

\* x goes after every element whose score is at least its own
InsertByScore(sorted, x) ==
  LET n == Cardinality({i \in DOMAIN sorted : sorted[i].rerank_score >= x.rerank_score})
  IN SubSeq(sorted, 1, n) \o <<x>> \o SubSeq(sorted, n + 1, Len(sorted))

\* scored.sort(key=lambda x: x["rerank_score"], reverse=True): a stable sort,
\* elements of equal score keep the order they had
RECURSIVE SortByScore(_)
SortByScore(scored) ==
  IF scored = <<>> THEN <<>>
  ELSE InsertByScore(SortByScore(SubSeq(scored, 1, Len(scored) - 1)), scored[Len(scored)])

\* _rerank_results without the sort at its end
RerankResultsUnsorted(query, results) ==
  LET query_words == WordSet(query)
      Scored(i) ==
        LET keyword_score == KeywordMatchScore(query_words, LowerText(results[i].text))
        IN [id |-> results[i].id,
            text |-> results[i].text,
            metadata |-> results[i].metadata,
            similarity |-> results[i].similarity,
            rerank_score |-> RerankScore(results[i].similarity, keyword_score, i - 1),
            keyword_score |-> keyword_score]
  IN [i \in DOMAIN results |-> Scored(i)]

\* _rerank_results(query, results)
RerankResults(query, results) ==
  LET query_words == WordSet(query)
      Scored(i) ==
        LET keyword_score == KeywordMatchScore(query_words, LowerText(results[i].text))
        IN [id |-> results[i].id,
            text |-> results[i].text,
            metadata |-> results[i].metadata,
            similarity |-> results[i].similarity,
            rerank_score |-> RerankScore(results[i].similarity, keyword_score, i - 1),
            keyword_score |-> keyword_score]
  IN SortByScore([i \in DOMAIN results |-> Scored(i)])

ContextEntry(result) ==
  [id |-> result.id, text |-> result.text, metadata |-> result.metadata,
   similarity |-> result.similarity, rerank_score |-> result.rerank_score]

\* _prepare_context with the floor test written >=
PrepareContextInclusive(results) ==
  LET AboveFloor(r) == r.rerank_score >= RerankFloor
      kept == SelectSeq(Take(results, ContextCap), AboveFloor)
  IN [i \in DOMAIN kept |-> ContextEntry(kept[i])]

\* _prepare_context(results)
PrepareContext(results) ==
  LET AboveFloor(r) == r.rerank_score > RerankFloor
      kept == SelectSeq(Take(results, ContextCap), AboveFloor)
  IN [i \in DOMAIN kept |-> ContextEntry(kept[i])]

\* process_query, step 5: reranked_results = self._rerank_results(...).  The
\* dicts of all_results are scored in place; the model keeps all_results as
\* the retriever returned it.
Rerank ==
  /\ q_pc = "rerank"
  /\ reranked_results' = RerankResults(enriched_query, all_results)
  /\ q_pc' = "context"
  /\ UNCHANGED <<configVars, enriched_query, categories, category_pos, category_results,
                 searches, all_results, context_chunks, llm_calls, llm_result, response>>
  /\ UNCHANGED notQueryVars

\* process_query, step 6: context_chunks = self._prepare_context(reranked_results)
SelectContext ==
  /\ q_pc = "context"
  /\ context_chunks' = PrepareContext(reranked_results)
  /\ q_pc' = "generate"
  /\ UNCHANGED <<configVars, enriched_query, categories, category_pos, category_results,
                 searches, all_results, reranked_results, llm_calls, llm_result, response>>
  /\ UNCHANGED notQueryVars

TextMotor == <<"m", "o", "t", "o", "r", " ", "u", "n", "i", "t">>
TextTheSpindle == <<"t", "h", "e", " ", "S", "p", "i", "n", "d", "l", "e">>
TextFault == <<"S", "p", "i", "n", "d", "l", "e", " ", "e", "0", "2", " ", "f", "a", "u", "l", "t">>
QuerySpindle == <<"E", "0", "2", " ", "s", "p", "i", "n", "d", "l", "e">>

NoMetadata == [page_number |-> 0]

CandidateKinds ==
  {[similarity |-> 290, text |-> TextMotor], [similarity |-> 291, text |-> TextMotor],
   [similarity |-> 630, text |-> TextMotor], [similarity |-> 291, text |-> TextTheSpindle]}

\* a candidate list as the retriever returns it: distinct ids
Candidates(kinds) ==
  [i \in DOMAIN kinds |-> [id |-> i, text |-> kinds[i].text, metadata |-> NoMetadata,
                           similarity |-> kinds[i].similarity]]

\* lists long enough for the position bonus to run out: twelve candidates of
\* one kind
LongLists ==
  {Candidates([i \in 1..(PositionBonusTop + 2) |-> kind]) :
     kind \in CandidateKinds \cup {[similarity |-> 630, text |-> TextFault]}}

\* _rerank_results and _prepare_context on any candidate list
InitRerank ==
  /\ enriched_query \in {<<>>, QuerySpindle}
  /\ all_results \in {Candidates(ks) : ks \in SeqsUpTo(CandidateKinds, MaxCandidates)}
                       \cup LongLists
  /\ top_k_chunks = 0 /\ similarity_threshold = 0
  /\ index_categories = <<>> /\ index_items = <<>>
  /\ q_message = <<>> /\ q_category = "" /\ q_history = <<>> /\ q_memory_enabled = FALSE
  /\ QueryLocalsClear
  /\ q_pc = "rerank"
  /\ ChunkerIdle /\ CiteIdle /\ ConfIdle /\ ApiIdle

NextRerank == Rerank \/ SelectContext
SpecRerank == InitRerank /\ [][NextRerank]_vars

Reranked == q_pc \in {"context", "generate", "format", "done"}
ContextReady == q_pc \in {"generate", "format", "done"}

\* position of the candidate with this id in the retriever's list
PositionOf(id) == CHOOSE i \in DOMAIN all_results : all_results[i].id = id

\* C1: the context set built by _prepare_context from the reranked list has
\* at most 5 entries, every entry has rerank_score strictly greater than 0.3
\* (exactly 0.3 is excluded), and the entries are in non-increasing
\* rerank_score order.
C1_ContextSet ==
  ContextReady =>
    /\ Len(context_chunks) <= ContextCap
    /\ \A i \in DOMAIN context_chunks : context_chunks[i].rerank_score > RerankFloor
    /\ \A i, j \in DOMAIN context_chunks :
         i < j => context_chunks[i].rerank_score >= context_chunks[j].rerank_score

\* six candidates, the fifth of the ranking at exactly 0.3: four are kept
C1_Witness ==
  /\ ContextReady
  /\ Len(reranked_results) = 6
  /\ reranked_results[5].rerank_score = RerankFloor
  /\ Len(context_chunks) = 4

\* C2: _rerank_results returns a permutation of its input (none dropped,
\* none duplicated), in non-increasing rerank_score order, and two candidates
\* of equal rerank_score keep the relative order they had in the input.
C2_RerankStablePermutation ==
  Reranked =>
    /\ Len(reranked_results) = Len(all_results)
    /\ \A i \in DOMAIN all_results :
         Cardinality({j \in DOMAIN reranked_results :
                        /\ reranked_results[j].id = all_results[i].id
                        /\ reranked_results[j].text = all_results[i].text
                        /\ reranked_results[j].similarity = all_results[i].similarity}) = 1
    /\ \A i, j \in DOMAIN reranked_results :
         i < j =>
           /\ reranked_results[i].rerank_score >= reranked_results[j].rerank_score
           /\ reranked_results[i].rerank_score = reranked_results[j].rerank_score
                => PositionOf(reranked_results[i].id) < PositionOf(reranked_results[j].id)

\* two candidates tie and the sort moved some candidate
C2_Witness ==
  /\ Reranked
  /\ \E i, j \in DOMAIN reranked_results :
       i < j /\ reranked_results[i].rerank_score = reranked_results[j].rerank_score
  /\ \E k \in DOMAIN reranked_results : reranked_results[k].id # all_results[k].id

(***************************************************************************)
(* QueryProcessor: query preprocessing and enrichment.                     *)
(***************************************************************************)
HistoryWindow == 6
ResponseSummaryLen == 100

\* a cleaning that trims the query and leaves its inner whitespace
PreprocessQueryTrimOnly(query) == Strip(query)

\* _preprocess_query: " ".join(query.split()).strip()
PreprocessQuery(query) == Strip(JoinWords(SplitWords(query, <<>>)))

PreviousPrefix == <<"P", "r", "e", "v", "i", "o", "u", "s", ":", " ">>
ResponsePrefix == <<"R", "e", "s", "p", "o", "n", "s", "e", ":", " ">>
Ellipsis == <<".", ".", ".">>
PartSeparator == <<" ", "|", " ">>

\* the parts of a history in which every content is cut at 100 characters
RECURSIVE ContextPartsAllSummarized(_)
ContextPartsAllSummarized(history) ==
  IF history = <<>> THEN <<>>
  ELSE LET msg == Head(history)
           content == IF Len(msg.content) > ResponseSummaryLen
                      THEN SubSeq(msg.content, 1, ResponseSummaryLen) \o Ellipsis
                      ELSE msg.content
           part == IF msg.role = "user" THEN <<PreviousPrefix \o content>>
                   ELSE IF msg.role = "assistant" THEN <<ResponsePrefix \o content>>
                        ELSE <<>>
       IN part \o ContextPartsAllSummarized(Tail(history))

\* the parts appended for the messages of the recent history
RECURSIVE ContextParts(_)
ContextParts(history) ==
  IF history = <<>> THEN <<>>
  ELSE LET msg == Head(history)
           part == IF msg.role = "user" THEN <<PreviousPrefix \o msg.content>>
                   ELSE IF msg.role = "assistant"
                        THEN <<ResponsePrefix \o
                                 (IF Len(msg.content) > ResponseSummaryLen
                                  THEN SubSeq(msg.content, 1, ResponseSummaryLen) \o Ellipsis
                                  ELSE msg.content)>>
                        ELSE <<>>
       IN part \o ContextParts(Tail(history))

\* " | ".join(parts)
RECURSIVE JoinParts(_)
JoinParts(parts) ==
  IF parts = <<>> THEN <<>>
  ELSE IF Len(parts) = 1 THEN parts[1]
       ELSE parts[1] \o PartSeparator \o JoinParts(Tail(parts))

\* an enrichment that folds in the whole history
EnrichWithWholeHistory(query, history, memory_enabled) ==
  IF history = <<>> \/ ~memory_enabled THEN query
  ELSE JoinParts(<<query>> \o ContextParts(history))

\* _enrich_with_context(query, history, memory_enabled)
EnrichWithContext(query, history, memory_enabled) ==
  IF history = <<>> \/ ~memory_enabled THEN query
  ELSE LET recent_history ==
             IF Len(history) >= HistoryWindow
             THEN SubSeq(history, Len(history) - HistoryWindow + 1, Len(history))
             ELSE history
       IN JoinParts(<<query>> \o ContextParts(recent_history))

(***************************************************************************)
(* VectorService.search and QueryProcessor._search_vector_store.           *)
(*                                                                         *)
(* A cosine distance is a multiple of 1/350, so that                       *)
(* similarity = max(0, 1 - distance/2) is (700 - d)/700, cut at 0.  The    *)
(* stored items of a category are kept nearest first, the order in which   *)
(* the collection's query returns them.                                    *)
(***************************************************************************)
MaxTopK == 3

\* _distance_to_similarity
DistanceToSimilarity(distance) == Max(0, 700 - distance)

\* x goes after every element whose similarity is at least its own
InsertBySimilarity(sorted, x) ==
  LET n == Cardinality({i \in DOMAIN sorted : sorted[i].similarity >= x.similarity})
  IN SubSeq(sorted, 1, n) \o <<x>> \o SubSeq(sorted, n + 1, Len(sorted))

\* processed_results.sort(key=lambda x: x["similarity"], reverse=True)
RECURSIVE SortBySimilarity(_)
SortBySimilarity(results) ==
  IF results = <<>> THEN <<>>
  ELSE InsertBySimilarity(SortBySimilarity(SubSeq(results, 1, Len(results) - 1)),
                          results[Len(results)])

\* the items of a category; get_collection gives an empty collection for a
\* category that has none
StoredItems(category) ==
  IF category \in DOMAIN index_items THEN index_items[category] ELSE <<>>

\* a search that asks the collection for all it holds
VectorSearchUncapped(category, n_results, threshold) ==
  LET nearest == StoredItems(category)
      Processed(i) == [id |-> nearest[i].id, text |-> nearest[i].text,
                       metadata |-> nearest[i].metadata,
                       distance |-> nearest[i].distance,
                       similarity |-> DistanceToSimilarity(nearest[i].distance)]
      AtLeastThreshold(r) == r.similarity >= threshold
  IN SortBySimilarity(SelectSeq([i \in DOMAIN nearest |-> Processed(i)], AtLeastThreshold))

\* a search that returns the nearest items whatever their similarity
VectorSearchUnfiltered(category, n_results, threshold) ==
  LET nearest == Take(StoredItems(category), n_results)
      Processed(i) == [id |-> nearest[i].id, text |-> nearest[i].text,
                       metadata |-> nearest[i].metadata,
                       distance |-> nearest[i].distance,
                       similarity |-> DistanceToSimilarity(nearest[i].distance)]
  IN SortBySimilarity([i \in DOMAIN nearest |-> Processed(i)])

\* VectorService.search(query_embedding, category, n_results, similarity_threshold)
VectorSearch(category, n_results, threshold) ==
  LET nearest == Take(StoredItems(category), n_results)
      Processed(i) == [id |-> nearest[i].id, text |-> nearest[i].text,
                       metadata |-> nearest[i].metadata,
                       distance |-> nearest[i].distance,
                       similarity |-> DistanceToSimilarity(nearest[i].distance)]
      AtLeastThreshold(r) == r.similarity >= threshold
  IN SortBySimilarity(SelectSeq([i \in DOMAIN nearest |-> Processed(i)], AtLeastThreshold))

\* "Flatten and deduplicate": the results of the categories in the order they
\* were searched, a result kept unless its id was seen
RECURSIVE Deduplicate(_, _, _)
Deduplicate(results, seen_ids, flattened) ==
  IF results = <<>> THEN flattened
  ELSE IF Head(results).id \in seen_ids
       THEN Deduplicate(Tail(results), seen_ids, flattened)
       ELSE Deduplicate(Tail(results), seen_ids \cup {Head(results).id},
                        Append(flattened, Head(results)))

\* a merge that ranks the candidates of all categories by similarity
FlattenResultsSorted(per_category) ==
  SortBySimilarity(
    Deduplicate(Flatten([i \in DOMAIN per_category |-> per_category[i].results]), {}, <<>>))

FlattenResults(per_category) ==
  Deduplicate(Flatten([i \in DOMAIN per_category |-> per_category[i].results]), {}, <<>>)

(***************************************************************************)
(* ResponseFormatter._clean_answer and format_citation_response.           *)
(***************************************************************************)
Punctuation == {".", ",", ";", ":", "!", "?"}

\* the longest run of whitespace s starts with
RECURSIVE SpaceRun(_)
SpaceRun(s) ==
  IF s # <<>> /\ IsSpace(Head(s)) THEN <<Head(s)>> \o SpaceRun(Tail(s)) ELSE <<>>

RECURSIVE NewlineRun(_)
NewlineRun(s) ==
  IF s # <<>> /\ Head(s) = "\n" THEN <<Head(s)>> \o NewlineRun(Tail(s)) ELSE <<>>

Drop(s, n) == SubSeq(s, n + 1, Len(s))

\* the first position of s in the set, which is not empty
First(positions) == CHOOSE i \in positions : \A j \in positions : i <= j

\* re.sub(r'\n{3,}', '\n\n', answer): the text up to the first newline stays,
\* a run of three or more becomes two, and the scan goes on after the run
RECURSIVE CollapseNewlines(_)
CollapseNewlines(s) ==
  LET newlines == {i \in DOMAIN s : s[i] = "\n"} IN
  IF newlines = {} THEN s
  ELSE LET first == First(newlines)
           run == NewlineRun(Drop(s, first - 1))
           after == Drop(s, first - 1 + Len(run))
       IN SubSeq(s, 1, first - 1)
            \o (IF Len(run) >= 3 THEN <<"\n", "\n">> ELSE run)
            \o CollapseNewlines(after)

\* re.sub(r'\s+([.,;:!?])', r'\1', clean): a run of whitespace goes when a
\* punctuation mark follows it
RECURSIVE TightenPunctuation(_)
TightenPunctuation(s) ==
  LET spaces == {i \in DOMAIN s : IsSpace(s[i])} IN
  IF spaces = {} THEN s
  ELSE LET first == First(spaces)
           run == SpaceRun(Drop(s, first - 1))
           after == Drop(s, first - 1 + Len(run))
       IN SubSeq(s, 1, first - 1)
            \o (IF after # <<>> /\ Head(after) \in Punctuation THEN <<>> ELSE run)
            \o TightenPunctuation(after)

StartsWithBold(s) == Len(s) >= 2 /\ s[1] = "*" /\ s[2] = "*"

\* re.sub(r'\*\*\s+', '**', clean): the whitespace after a "**" goes
RECURSIVE TightenAfterBold(_)
TightenAfterBold(s) ==
  LET matches == {i \in DOMAIN s : /\ StartsWithBold(Drop(s, i - 1))
                                   /\ SpaceRun(Drop(s, i + 1)) # <<>>} IN
  IF matches = {} THEN s
  ELSE LET first == First(matches)
           run == SpaceRun(Drop(s, first + 1))
       IN SubSeq(s, 1, first + 1) \o TightenAfterBold(Drop(s, first + 1 + Len(run)))

\* re.sub(r'\s+\*\*', '**', clean): the whitespace before a "**" goes
RECURSIVE TightenBeforeBold(_)
TightenBeforeBold(s) ==
  LET spaces == {i \in DOMAIN s : IsSpace(s[i])} IN
  IF spaces = {} THEN s
  ELSE LET first == First(spaces)
           run == SpaceRun(Drop(s, first - 1))
           after == Drop(s, first - 1 + Len(run))
       IN SubSeq(s, 1, first - 1)
            \o (IF StartsWithBold(after)
                THEN <<"*", "*">> \o TightenBeforeBold(Drop(after, 2))
                ELSE run \o TightenBeforeBold(after))

\* _clean_answer(answer)
CleanAnswer(answer) ==
  TightenBeforeBold(TightenAfterBold(Strip(TightenPunctuation(CollapseNewlines(answer)))))

\* format_citation_response(answer, context_chunks, confidence)
FormatCitationResponse(answer, context, confidence) ==
  [answer |-> CleanAnswer(answer),
   sources |-> [i \in DOMAIN context |->
                  [id |-> i,
                   manual_name |-> MetaGet(context[i].metadata, "manual_name", "Unknown"),
                   page_number |-> MetaGet(context[i].metadata, "page_number", 0),
                   section |-> MetaGet(context[i].metadata, "section", "None"),
                   similarity |-> context[i].similarity]],
   confidence |-> confidence]

(***************************************************************************)
(* RAGPipeline.process_chat_message.                                       *)
(***************************************************************************)
CannedAnswer ==
  <<"I", " ", "c", "o", "u", "l", "d", "n", "'", "t", " ", "f", "i", "n",
    "d", " ", "a", "n", "y", " ", "r", "e", "l", "e", "v", "a", "n", "t",
    " ", "i", "n", "f", "o", "r", "m", "a", "t", "i", "o", "n", " ", "i",
    "n", " ", "t", "h", "e", " ", "d", "o", "c", "u", "m", "e", "n", "t",
    "a", "t", "i", "o", "n", " ", "f", "o", "r", " ", "y", "o", "u", "r",
    " ", "q", "u", "e", "r", "y", ".", " ", "T", "r", "y", " ", "r", "e",
    "p", "h", "r", "a", "s", "i", "n", "g", " ", "y", "o", "u", "r", " ",
    "q", "u", "e", "s", "t", "i", "o", "n", " ", "o", "r", " ", "c", "h",
    "e", "c", "k", " ", "i", "f", " ", "d", "o", "c", "u", "m", "e", "n",
    "t", "s", " ", "h", "a", "v", "e", " ", "b", "e", "e", "n", " ", "u",
    "p", "l", "o", "a", "d", "e", "d", ".">>

\* _generate_response with no context chunk, answering with a confidence of its own
NoContextResultGuessed ==
  [generated |-> TRUE, answer |-> CannedAnswer, confidence |-> AgreementBonus, sources |-> {}]

\* _generate_response: the result for an empty context
NoContextResult ==
  [generated |-> TRUE, answer |-> CannedAnswer, confidence |-> 0, sources |-> {}]

\* LLMService._extract_sources_from_response(answer, context_chunks)
ExtractSources(answer, context) ==
  LET found == FindAllMarkers(answer)
      cited_numbers == {found[i] : i \in DOMAIN found}
      Cited(num) ==
        LET chunk == context[IntOf(num)]
        IN [citation_number |-> num,
            manual_name |-> MetaGet(chunk.metadata, "manual_name", "Unknown"),
            page_number |-> MetaGet(chunk.metadata, "page_number", 0),
            section |-> MetaGet(chunk.metadata, "section", "None")]
  IN {Cited(num) :
        num \in {n \in cited_numbers : 0 <= IntOf(n) - 1 /\ IntOf(n) - 1 < Len(context)}}

\* _generate_response: the result for the answer the language model gave
LLMResult(answer, context) ==
  [generated |-> TRUE,
   answer |-> answer,
   confidence |-> CalculateConfidence(context, ContextRerankScores(context)),
   sources |-> ExtractSources(answer, context)]

\* process_chat_message, steps 3 and 4: the ChatResponse built
BuildResponse(result, context) ==
  LET formatted == FormatCitationResponse(result.answer, context, result.confidence)
  IN [returned |-> TRUE,
      answer |-> formatted.answer,
      sources |-> [i \in DOMAIN formatted.sources |->
                     [manual_name |-> formatted.sources[i].manual_name,
                      page_number |-> formatted.sources[i].page_number,
                      section |-> formatted.sources[i].section,
                      similarity_score |-> formatted.sources[i].similarity]],
      citations |-> <<>>,
      confidence |-> formatted.confidence]

requestVars == <<top_k_chunks, similarity_threshold, q_message, q_category, q_history,
                 q_memory_enabled>>
indexVars == <<index_categories, index_items>>

Range(seq) == {seq[i] : i \in DOMAIN seq}

\* a raise that is caught, and the request answered from what there is
ReraiseSwallowed(exception) == "generate"

\* process_chat_message, "except Exception as e: logger.error(...); raise": the
\* exception of a collaborator leaves the call as it came
Reraise(exception) == exception

\* process_query, steps 1 and 2
EnrichQuery ==
  /\ q_pc = "enrich"
  /\ enriched_query' = EnrichWithContext(PreprocessQuery(q_message), q_history,
                                         q_memory_enabled)
  /\ q_pc' = "embed"
  /\ UNCHANGED <<configVars, categories, category_pos, category_results, searches,
                 all_results, reranked_results, context_chunks, llm_calls, llm_result,
                 response>>
  /\ UNCHANGED notQueryVars

\* process_query, step 3: the embedding service answers ...
EmbedQuery ==
  /\ q_pc = "embed"
  /\ q_pc' = "search"
  /\ UNCHANGED <<configVars, enriched_query, categories, category_pos, category_results,
                 searches, all_results, reranked_results, context_chunks, llm_calls,
                 llm_result, response>>
  /\ UNCHANGED notQueryVars

\* ... or fails, and the exception leaves process_chat_message
EmbedQueryRaises ==
  /\ q_pc = "embed"
  /\ q_pc' = Reraise("raised_embed")
  /\ UNCHANGED <<configVars, enriched_query, categories, category_pos, category_results,
                 searches, all_results, reranked_results, context_chunks, llm_calls,
                 llm_result, response>>
  /\ UNCHANGED notQueryVars

\* _search_vector_store with a category: one search with n_results = top_k_chunks;
\* get_collection creates the collection of a category that has none
SearchCategory ==
  /\ q_pc = "search" /\ q_category # ""
  /\ all_results' = VectorSearch(q_category, top_k_chunks, similarity_threshold)
  /\ searches' = Append(searches, [category |-> q_category, n_results |-> top_k_chunks,
                                   similarity_threshold |-> similarity_threshold])
  /\ IF q_category \in Range(index_categories)
     THEN UNCHANGED indexVars
     ELSE /\ index_categories' = Append(index_categories, q_category)
          /\ index_items' = [c \in Range(index_categories) \cup {q_category} |->
                               StoredItems(c)]
  /\ q_pc' = "rerank"
  /\ UNCHANGED <<requestVars, enriched_query, categories, category_pos, category_results,
                 reranked_results, context_chunks, llm_calls, llm_result, response>>
  /\ UNCHANGED notQueryVars

\* _search_vector_store without a category: categories = list_categories()
ListCategories ==
  /\ q_pc = "search" /\ q_category = ""
  /\ categories' = index_categories
  /\ category_pos' = 1
  /\ q_pc' = "search_each"
  /\ UNCHANGED <<configVars, enriched_query, category_results, searches, all_results,
                 reranked_results, context_chunks, llm_calls, llm_result, response>>
  /\ UNCHANGED notQueryVars

\* a cap of top_k // n, without the one added
PartitionCapWithoutOne(top_k, n) == top_k \div n

\* n_results = self.top_k_chunks // len(categories) + 1
PartitionCap(top_k, n) == (top_k \div n) + 1

\* one turn of "for cat in categories"
SearchEach ==
  /\ q_pc = "search_each" /\ category_pos <= Len(categories)
  /\ LET cat == categories[category_pos]
         n_results == PartitionCap(top_k_chunks, Len(categories))
     IN /\ category_results' =
             Append(category_results,
                    [category |-> cat,
                     results |-> VectorSearch(cat, n_results, similarity_threshold)])
        /\ searches' = Append(searches, [category |-> cat, n_results |-> n_results,
                                         similarity_threshold |-> similarity_threshold])
  /\ category_pos' = category_pos + 1
  /\ UNCHANGED <<configVars, enriched_query, categories, all_results, reranked_results,
                 context_chunks, llm_calls, llm_result, response, q_pc>>
  /\ UNCHANGED notQueryVars

\* the loop is over: flatten and deduplicate
MergeResults ==
  /\ q_pc = "search_each" /\ category_pos > Len(categories)
  /\ all_results' = FlattenResults(category_results)
  /\ q_pc' = "rerank"
  /\ UNCHANGED <<configVars, enriched_query, categories, category_pos, category_results,
                 searches, reranked_results, context_chunks, llm_calls, llm_result,
                 response>>
  /\ UNCHANGED notQueryVars

\* a call of the vector service fails, and the exception leaves process_chat_message
VectorStoreRaises ==
  /\ \/ q_pc = "search"
     \/ q_pc = "search_each" /\ category_pos <= Len(categories)
  /\ q_pc' = Reraise("raised_search")
  /\ UNCHANGED <<configVars, enriched_query, categories, category_pos, category_results,
                 searches, all_results, reranked_results, context_chunks, llm_calls,
                 llm_result, response>>
  /\ UNCHANGED notQueryVars

LLMAnswers ==
  {<<"o", "k">>,
   <<"s", "e", "e", " ", "[", "1", "]", " ", ".">>,
   <<"[", "1", "]", "[", "2", "]">>,
   <<"*", "*", " ", " ", "[", "2", "]", "\n", "\n", "\n", "x", " ", " ", "*", "*">>}

\* _generate_response with no context chunk: the canned answer, no call of the model
GenerateNoContext ==
  /\ q_pc = "generate" /\ context_chunks = <<>>
  /\ llm_result' = NoContextResult
  /\ q_pc' = "format"
  /\ UNCHANGED <<configVars, enriched_query, categories, category_pos, category_results,
                 searches, all_results, reranked_results, context_chunks, llm_calls,
                 response>>
  /\ UNCHANGED notQueryVars

\* _generate_response with context: the model is called and answers ...
GenerateWithLLM ==
  /\ q_pc = "generate" /\ context_chunks # <<>>
  /\ llm_calls' = llm_calls + 1
  /\ \E answer \in LLMAnswers : llm_result' = LLMResult(answer, context_chunks)
  /\ q_pc' = "format"
  /\ UNCHANGED <<configVars, enriched_query, categories, category_pos, category_results,
                 searches, all_results, reranked_results, context_chunks, response>>
  /\ UNCHANGED notQueryVars

\* ... or fails, and the exception leaves process_chat_message
LLMRaises ==
  /\ q_pc = "generate" /\ context_chunks # <<>>
  /\ llm_calls' = llm_calls + 1
  /\ q_pc' = Reraise("raised_llm")
  /\ UNCHANGED <<configVars, enriched_query, categories, category_pos, category_results,
                 searches, all_results, reranked_results, context_chunks, llm_result,
                 response>>
  /\ UNCHANGED notQueryVars

\* process_chat_message, steps 3 and 4
FormatResponse ==
  /\ q_pc = "format"
  /\ response' = BuildResponse(llm_result, context_chunks)
  /\ q_pc' = "done"
  /\ UNCHANGED <<configVars, enriched_query, categories, category_pos, category_results,
                 searches, all_results, reranked_results, context_chunks, llm_calls,
                 llm_result>>
  /\ UNCHANGED notQueryVars

(***************************************************************************)
(* The requests and the indexes of the pipeline specification.             *)
(***************************************************************************)
MetaRover == [manual_name |-> "Rover", page_number |-> 12, section |-> "Faults"]
MetaSkill == [manual_name |-> "Skill", page_number |-> 4]

\* what the maintenance and the safety collections may hold: distances in 1/350
PoolMaintenance ==
  {[id |-> "c1", distance |-> 70, text |-> TextFault, metadata |-> MetaRover],
   [id |-> "c2", distance |-> 210, text |-> TextTheSpindle, metadata |-> MetaSkill],
   [id |-> "c3", distance |-> 410, text |-> TextMotor, metadata |-> MetaSkill]}

PoolSafety ==
  {[id |-> "c1", distance |-> 100, text |-> TextFault, metadata |-> MetaRover],
   [id |-> "c4", distance |-> 409, text |-> TextMotor, metadata |-> NoMetadata],
   [id |-> "c5", distance |-> 1400, text |-> TextMotor, metadata |-> MetaSkill]}

\* the items of a collection in the order its query returns them
RECURSIVE NearestFirst(_)
NearestFirst(items) ==
  IF items = {} THEN <<>>
  ELSE LET nearest == CHOOSE x \in items : \A y \in items : x.distance <= y.distance
       IN <<nearest>> \o NearestFirst(items \ {nearest})

IndexCategoryLists ==
  {<<>>, <<"maintenance">>, <<"safety">>, <<"maintenance", "safety">>,
   <<"safety", "maintenance">>}

\* 0.2 and 0.7
SimilarityThresholds == {140, 490}

HistoryAsked ==
  <<[role |-> "user", content |-> <<"E", "0", "2">>],
    [role |-> "system", content |-> <<"b", "e", " ", "b", "r", "i", "e", "f">>],
    [role |-> "assistant", content |-> <<"o", "k">>]>>

Requests ==
  {[message |-> <<" ", "E", "0", "2", " ", " ", "s", "p", "i", "n", "d", "l", "e", " ">>, history |-> <<>>, memory_enabled |-> TRUE],
   [message |-> <<"m", "o", "t", "o", "r">>, history |-> HistoryAsked, memory_enabled |-> TRUE],
   [message |-> <<"m", "o", "t", "o", "r">>, history |-> HistoryAsked, memory_enabled |-> FALSE],
   [message |-> <<" ">>, history |-> <<>>, memory_enabled |-> TRUE]}

\* Settings: top_k_chunks = 10 and similarity_threshold = 0.7
DefaultTopK == 10
DefaultSimilarityThreshold == 490

\* a manual of eight chunks: seven within the default threshold, one of them
\* exactly at it, and one beyond
PoolManual ==
  {[id |-> "m1", distance |-> 10, text |-> TextFault, metadata |-> MetaRover],
   [id |-> "m2", distance |-> 40, text |-> TextMotor, metadata |-> MetaRover],
   [id |-> "m3", distance |-> 70, text |-> TextTheSpindle, metadata |-> MetaRover],
   [id |-> "m4", distance |-> 100, text |-> TextMotor, metadata |-> MetaSkill],
   [id |-> "m5", distance |-> 130, text |-> TextMotor, metadata |-> NoMetadata],
   [id |-> "m6", distance |-> 160, text |-> TextFault, metadata |-> MetaSkill],
   [id |-> "m7", distance |-> 210, text |-> TextMotor, metadata |-> MetaSkill],
   [id |-> "m8", distance |-> 211, text |-> TextFault, metadata |-> MetaSkill]}

\* a QueryProcessor over small indexes, or one with the default settings over
\* the manual
InitPipeline ==
  /\ \/ /\ top_k_chunks \in 1..MaxTopK
        /\ similarity_threshold \in SimilarityThresholds
        /\ index_categories \in IndexCategoryLists
        /\ \E m \in SUBSET PoolMaintenance, s \in SUBSET PoolSafety :
             index_items = [c \in Range(index_categories) |->
                              IF c = "maintenance" THEN NearestFirst(m)
                              ELSE NearestFirst(s)]
     \/ /\ top_k_chunks = DefaultTopK
        /\ similarity_threshold = DefaultSimilarityThreshold
        /\ index_categories = <<"maintenance">>
        /\ index_items = [c \in {"maintenance"} |-> NearestFirst(PoolManual)]
  /\ \E request \in Requests :
       /\ q_message = request.message
       /\ q_history = request.history
       /\ q_memory_enabled = request.memory_enabled
  /\ q_category \in {"", "maintenance", "safety"}
  /\ enriched_query = <<>> /\ all_results = <<>>
  /\ QueryLocalsClear
  /\ q_pc = "enrich"
  /\ ChunkerIdle /\ CiteIdle /\ ConfIdle /\ ApiIdle

NextPipeline ==
  \/ EnrichQuery \/ EmbedQuery \/ EmbedQueryRaises
  \/ SearchCategory \/ ListCategories \/ SearchEach \/ MergeResults \/ VectorStoreRaises
  \/ Rerank \/ SelectContext
  \/ GenerateNoContext \/ GenerateWithLLM \/ LLMRaises
  \/ FormatResponse

SpecPipeline == InitPipeline /\ [][NextPipeline]_vars

(***************************************************************************)
(* Claims about process_chat_message.                                      *)
(***************************************************************************)
\* the request got as far as a context set, and the set is empty
EmptyContext == q_pc \in {"generate", "format", "done", "raised_llm"} /\ context_chunks = <<>>

\* C4: whenever the context set of a request is empty, process_chat_message
\* returns the canned answer with confidence 0, no sources and no citations,
\* raises no error, and the language model is never called for the request.
C4_EmptyContextCannedAnswer ==
  EmptyContext =>
    /\ llm_calls = 0
    /\ q_pc # "raised_llm"
    /\ q_pc \in {"format", "done"} => llm_result = NoContextResult
    /\ q_pc = "done" =>
         response = [returned |-> TRUE, answer |-> CannedAnswer, sources |-> <<>>,
                     citations |-> <<>>, confidence |-> 0]

\* a request whose candidates all fell at the rerank floor has been answered
C4_Witness ==
  /\ q_pc = "done" /\ response.returned
  /\ all_results # <<>> /\ context_chunks = <<>>

\* the numbers of the markers of the generated answer that name a context chunk
CitedChunks ==
  {n \in 1..Len(context_chunks) :
     \E i \in DOMAIN FindAllMarkers(llm_result.answer) :
        IntOf(FindAllMarkers(llm_result.answer)[i]) = n}

\* C6: for a non-empty context set of k chunks, the citations field of the
\* response holds one citation for each marker [n], 1 <= n <= k, of the
\* generated answer.
C6_ResponseCitations ==
  (q_pc = "done" /\ context_chunks # <<>>) =>
    \A n \in CitedChunks :
      Cardinality({i \in DOMAIN response.citations :
                     IntOf(response.citations[i].number) = n}) = 1

(***************************************************************************)
(* Further properties of the chunker.                                      *)
(***************************************************************************)
FirstBlock(i) == chunks[i].window[1]
LastBlock(i) == chunks[i].window[Len(chunks[i].window)]

\* C11: the block chunker loses and reorders nothing: each chunk's window is
\* a contiguous run of input blocks in their order, every input block is in
\* at least one chunk, and from one chunk to the next the first block index
\* never decreases while the last block index strictly increases.
C11_NothingLostOrReordered ==
  /\ \A i \in DOMAIN chunks :
       /\ chunks[i].window # <<>>
       /\ \A k \in DOMAIN chunks[i].window : chunks[i].window[k] \in DOMAIN blocks
       /\ \A k \in 1..(Len(chunks[i].window) - 1) :
            chunks[i].window[k + 1] = chunks[i].window[k] + 1
  /\ \A i \in 1..(Len(chunks) - 1) :
       /\ FirstBlock(i) <= FirstBlock(i + 1)
       /\ LastBlock(i) < LastBlock(i + 1)
  /\ ck_pc = "done" =>
       /\ Len(blocks) = Len(extracted_blocks)
       /\ \A b \in DOMAIN blocks :
            \E i \in DOMAIN chunks : \E k \in DOMAIN chunks[i].window :
               chunks[i].window[k] = b

\* a chunking has ended in which a chunk starts with two blocks of the chunk
\* before it
C11_Witness ==
  /\ ck_pc = "done"
  /\ \E i \in 1..(Len(chunks) - 1) :
       /\ Len(chunks[i + 1].window) >= 3
       /\ chunks[i + 1].window[2] = LastBlock(i)

\* C12: every emitted chunk's token_count is floor(len(chunk.text) / 4), in
\* the block path and in the plain-text fallback.
C12_TokenCount ==
  /\ \A i \in DOMAIN chunks : chunks[i].token_count = chunks[i].text_len \div 4
  /\ \A i \in DOMAIN text_chunks :
       text_chunks[i].token_count = Len(text_chunks[i].text) \div 4

\* the fallback has emitted a chunk of two paragraphs whose length is no
\* multiple of 4
C12_Witness ==
  /\ ck_pc = "done"
  /\ \E i \in DOMAIN text_chunks :
       /\ Len(text_chunks[i].text) % 4 # 0
       /\ text_chunks[i].token_count > 0
       /\ \E k \in 1..(Len(text_chunks[i].text) - 1) :
            text_chunks[i].text[k] = "\n" /\ text_chunks[i].text[k + 1] = "\n"

\* chunk_document has returned
BlockPathDone == ck_pc = "done" /\ block_pos > 0

\* the steps chunk_document has left: the normalization, one turn of the loop
\* for each block not yet read, the last chunk
StepsLeft ==
  CASE ck_pc = "normalize" -> Len(extracted_blocks) + 2
    [] ck_pc = "build" -> Len(blocks) - block_pos + 2
    [] OTHER -> 0

C13_ResultWellFormed ==
  /\ ck_pc # "raised"
  /\ ck_pc = "normalize" => ENABLED Normalize
  /\ ck_pc = "build" => ENABLED (BuildStep \/ BuildFinish)
  /\ BlockPathDone =>
       /\ chunking_result.returned
       /\ chunking_result.total_chunks = Len(chunks)
       /\ extracted_blocks = <<>> =>
            /\ chunks = <<>>
            /\ chunking_result.total_chunks = 0
            /\ chunking_result.total_tokens = 0

\* C13: chunking never fails: for every block sequence and every
\* chunk_size/chunk_overlap chunk_document ends with a result (no step raises,
\* a call under way always has a next step, and every step leaves fewer
\* steps), and for an empty block sequence the result has no chunk
\* (total_chunks = 0, total_tokens = 0).
C13_ChunkingNeverFails ==
  /\ []C13_ResultWellFormed
  /\ [][(ck_pc \in {"normalize", "build"}) => (StepsLeft' < StepsLeft)]_vars

\* chunk_document has returned for an empty block sequence
C13_Witness ==
  /\ BlockPathDone
  /\ extracted_blocks = <<>>
  /\ chunking_result = [returned |-> TRUE, total_chunks |-> 0, total_tokens |-> 0]

\* C14: every chunk of the plain-text fallback respects the hard character
\* budget, len(chunk.text) <= chunk_size * 4; a paragraph over the budget is
\* split by the word-level packer, never emitted whole.
C14_TextBudget ==
  \A i \in DOMAIN text_chunks : Len(text_chunks[i].text) <= chunk_size * 4

(***************************************************************************)
(* The query enricher on its own: _preprocess_query and                    *)
(* _enrich_with_context on any short query and any short history of user   *)
(* and assistant turns (the two roles of MessageRole).                     *)
(***************************************************************************)
MaxQueryLen == 5
MaxHistory == 7

QueryChars == {"E", "s", " ", "\n"}

RECURSIVE Repeat(_, _)
Repeat(c, n) == IF n = 0 THEN <<>> ELSE <<c>> \o Repeat(c, n - 1)

\* a user turn of 103 characters, a short one, an assistant turn of exactly
\* 100 characters and one of 101
UserLong == [role |-> "user", content |-> <<"E", "0", "2", " ", "A", "b">> \o Repeat("x", 97)]
UserShort == [role |-> "user", content |-> <<"H", "i", " ", "E", "0", "2">>]
AssistantExact == [role |-> "assistant", content |-> <<"O", "k">> \o Repeat("y", 98)]
AssistantLong == [role |-> "assistant", content |-> <<"N", "o">> \o Repeat("z", 99)]

HistoryKinds == {UserLong, UserShort, AssistantExact, AssistantLong}

QueryFault == <<" ", "E", "0", "2", " ", " ", "f", "a", "u", "l", "t", " ">>

InitEnrich ==
  /\ \/ /\ q_message \in SeqsUpTo(QueryChars, MaxQueryLen)
        /\ q_history \in {<<>>, <<UserShort, AssistantLong>>}
        /\ q_memory_enabled \in BOOLEAN
     \/ /\ q_message = QueryFault
        /\ q_history \in SeqsUpTo(HistoryKinds, MaxHistory)
        /\ q_memory_enabled = TRUE
  /\ q_category = ""
  /\ top_k_chunks = 0 /\ similarity_threshold = 0
  /\ index_categories = <<>> /\ index_items = <<>>
  /\ enriched_query = <<>> /\ all_results = <<>>
  /\ QueryLocalsClear
  /\ q_pc = "enrich"
  /\ ChunkerIdle /\ CiteIdle /\ ConfIdle /\ ApiIdle

NextEnrich == EnrichQuery
SpecEnrich == InitEnrich /\ [][NextEnrich]_vars

Enriched == q_pc = "embed"

\* the tokens of a text: its maximal runs of characters that are no whitespace
TokenStarts(s) ==
  {i \in DOMAIN s : ~IsSpace(s[i]) /\ (i = 1 \/ IsSpace(s[i - 1]))}
TokenEnd(s, i) ==
  CHOOSE j \in i..Len(s) :
    /\ \A k \in i..j : ~IsSpace(s[k])
    /\ j = Len(s) \/ IsSpace(s[j + 1])

\* the tokens of s, left to right
RECURSIVE TokensFrom(_, _)
TokensFrom(s, starts) ==
  IF starts = {} THEN <<>>
  ELSE LET i == First(starts)
       IN <<SubSeq(s, i, TokenEnd(s, i))>> \o TokensFrom(s, starts \ {i})
Tokens(s) == TokensFrom(s, TokenStarts(s))

\* C15: if memory_enabled is false or the history is empty, the enriched
\* query is the cleaned query: the tokens of the raw query, in their order and
\* unchanged, joined by single spaces, with no whitespace at either end and
\* no history fragment.
C15_CleanedQueryUnchanged ==
  (Enriched /\ (~q_memory_enabled \/ q_history = <<>>)) =>
    LET tokens == Tokens(q_message)
    IN /\ Tokens(enriched_query) = tokens
       /\ \A i \in DOMAIN enriched_query : enriched_query[i] # "\n"
       /\ Len(enriched_query) =
            IF tokens = <<>> THEN 0
            ELSE SumSeq([k \in DOMAIN tokens |-> Len(tokens[k])]) + Len(tokens) - 1

\* memory is off, the history is not empty, and the raw query had whitespace
\* to drop around an upper-case token
C15_Witness ==
  /\ Enriched
  /\ ~q_memory_enabled /\ q_history # <<>>
  /\ Len(q_message) = MaxQueryLen /\ Len(enriched_query) = 3
  /\ Len(Tokens(q_message)) = 2
  /\ \E i \in DOMAIN enriched_query : enriched_query[i] = "E"

\* the part of a turn: "Previous: " and the user's content, or "Response: "
\* and the assistant's content, cut at 100 characters with "..." when longer
Fragment(msg) ==
  IF msg.role = "user" THEN <<"P", "r", "e", "v", "i", "o", "u", "s", ":", " ">> \o msg.content
  ELSE <<"R", "e", "s", "p", "o", "n", "s", "e", ":", " ">> \o
         (IF Len(msg.content) <= 100 THEN msg.content
          ELSE SubSeq(msg.content, 1, 100) \o <<".", ".", ".">>)

\* the query, then the fragments of the n latest of the turns, oldest first,
\* each after " | "
RECURSIVE QueryThenFragments(_, _, _)
QueryThenFragments(query, turns, n) ==
  IF n = 0 THEN query
  ELSE QueryThenFragments(query, turns, n - 1)
         \o <<" ", "|", " ">> \o Fragment(turns[Len(turns) - Min(6, Len(turns)) + n])

RECURSIVE PartsOf(_)
PartsOf(s) ==
  LET separators == {i \in 1..(Len(s) - 2) : SubSeq(s, i, i + 2) = <<" ", "|", " ">>} IN
  IF separators = {} THEN <<s>>
  ELSE LET i == First(separators)
       IN <<SubSeq(s, 1, i - 1)>> \o PartsOf(SubSeq(s, i + 3, Len(s)))

\* C17: in the enriched query the fragment of an assistant turn is
\* "Response: " and the content when it has at most 100 characters, else its
\* first 100 characters and "..."; the fragment of a user turn is
\* "Previous: " and the whole content, never cut and never case-changed.
C17_FragmentForm ==
  (Enriched /\ q_memory_enabled /\ q_history # <<>>) =>
    LET parts == PartsOf(enriched_query)
        n == Min(6, Len(q_history))
        Turn(k) == q_history[Len(q_history) - n + k]
    IN /\ Len(parts) = n + 1
       /\ \A k \in 1..n :
            LET content == Turn(k).content
                body == SubSeq(parts[k + 1], 11, Len(parts[k + 1]))
            IN IF Turn(k).role = "user"
               THEN /\ SubSeq(parts[k + 1], 1, 10) = <<"P", "r", "e", "v", "i", "o", "u", "s", ":", " ">>
                    /\ body = content
               ELSE /\ SubSeq(parts[k + 1], 1, 10) = <<"R", "e", "s", "p", "o", "n", "s", "e", ":", " ">>
                    /\ Len(content) <= 100 => body = content
                    /\ Len(content) > 100 =>
                         /\ Len(body) = 103
                         /\ SubSeq(body, 1, 100) = SubSeq(content, 1, 100)
                         /\ SubSeq(body, 101, 103) = <<".", ".", ".">>

\* the turns folded in hold a user turn of more than 100 characters and
\* assistant turns of exactly 100 and of 101 characters
C17_Witness ==
  /\ Enriched /\ q_memory_enabled
  /\ Len(q_history) = 3
  /\ q_history = <<UserLong, AssistantExact, AssistantLong>>

(***************************************************************************)
(* Properties of the retriever, _search_vector_store.                      *)
(***************************************************************************)
Retrieved == q_pc \in {"rerank", "context", "generate", "format", "done", "raised_llm"}

\* C18: when a category is given, retrieval issues exactly one search,
\* against that partition only, and the candidates returned number at most
\* top_k, each has similarity >= similarity_threshold, and they are in
\* non-increasing similarity order.
C18_CategorySearch ==
  (Retrieved /\ q_category # "") =>
    /\ Len(searches) = 1
    /\ searches[1].category = q_category
    /\ Len(all_results) <= top_k_chunks
    /\ \A i \in DOMAIN all_results : all_results[i].similarity >= similarity_threshold
    /\ \A i, j \in DOMAIN all_results :
         i < j => all_results[i].similarity >= all_results[j].similarity

\* the partition holds more than top_k items, top_k candidates came back and
\* one of them sits exactly at the floor
C18_Witness ==
  /\ Retrieved /\ q_category # ""
  /\ Len(StoredItems(q_category)) > top_k_chunks
  /\ Len(all_results) = top_k_chunks
  /\ \E i \in DOMAIN all_results : all_results[i].similarity = similarity_threshold

\* the candidates the partitions returned, in the order the partitions were
\* visited and, within one, in the order it returned them
ReturnedStream ==
  Flatten([k \in DOMAIN category_results |-> category_results[k].results])

FirstSeen(id) == First({p \in DOMAIN ReturnedStream : ReturnedStream[p].id = id})

\* C19: when no category is given, the merged result holds each candidate id
\* returned by any partition exactly once, in first-seen order, the
\* partitions visited in the order of list_categories and the results of
\* each in the order returned; the merged list is not sorted again.
C19_MergeFirstSeen ==
  (Retrieved /\ q_category = "") =>
    /\ categories = index_categories
    /\ Len(category_results) = Len(categories)
    /\ \A k \in DOMAIN category_results : category_results[k].category = categories[k]
    /\ \A i, j \in DOMAIN all_results :
         i # j => all_results[i].id # all_results[j].id
    /\ {all_results[i].id : i \in DOMAIN all_results}
         = {ReturnedStream[p].id : p \in DOMAIN ReturnedStream}
    /\ \A i \in DOMAIN all_results :
         all_results[i] = ReturnedStream[FirstSeen(all_results[i].id)]
    /\ \A i, j \in DOMAIN all_results :
         i < j => FirstSeen(all_results[i].id) < FirstSeen(all_results[j].id)

\* two partitions returned the same id, and the merged list is not in
\* similarity order
C19_Witness ==
  /\ Retrieved /\ q_category = ""
  /\ Len(ReturnedStream) > Len(all_results)
  /\ \E i, j \in DOMAIN all_results :
       i < j /\ all_results[i].similarity < all_results[j].similarity

\* C20: when no category is given and there are n >= 1 partitions, retrieval
\* issues exactly one search per partition, each with the cap
\* floor(top_k / n) + 1 and the configured similarity floor; with n = 0
\* partitions no search is issued, nothing is divided by zero, and the result
\* is the empty list.
C20_OneSearchPerPartition ==
  /\ (Retrieved /\ q_category = "") =>
       LET n == Len(index_categories) IN
       /\ Len(searches) = n
       /\ \A k \in 1..n :
            searches[k] = [category |-> index_categories[k],
                           n_results |-> (top_k_chunks \div n) + 1,
                           similarity_threshold |-> similarity_threshold]
       /\ n = 0 => all_results = <<>>
  /\ (q_pc = "search_each" /\ categories = <<>>) =>
       /\ ENABLED MergeResults
       /\ ~ENABLED SearchEach
       /\ ~ENABLED VectorStoreRaises

\* two partitions were searched with a cap of 3 // 2 + 1 = 2, and one of them
\* holds more than that
C20_Witness ==
  /\ Retrieved /\ q_category = ""
  /\ Len(index_categories) = 2 /\ top_k_chunks = 3
  /\ Len(searches) = 2
  /\ \E k \in DOMAIN category_results :
       /\ Len(StoredItems(category_results[k].category)) = 3
       /\ Len(category_results[k].results) = 2

(***************************************************************************)
(* Failures of the collaborators of process_chat_message.                  *)
(***************************************************************************)
Raised == q_pc \in {"raised_embed", "raised_search", "raised_llm"}

\* the searches of the request are all made
SearchesMade ==
  IF q_category # "" THEN Len(searches) = 1 ELSE Len(searches) = Len(index_categories)

\* C21: if the embedding call, the partition listing, a partition search or
\* the language-model call raises during process_chat_message, the failure
\* leaves the call: no response is returned, the results of the partitions
\* already searched are not returned as a partial answer, and no later step
\* runs (no search after a failed embedding, no language-model call after a
\* failed search); a request reaches a later step only with the earlier ones
\* done.
C21_FailurePropagates ==
  /\ Raised => (response = NoResponse /\ ~ENABLED NextPipeline)
  /\ q_pc = "raised_embed" =>
       /\ searches = <<>> /\ categories = <<>> /\ category_results = <<>>
       /\ all_results = <<>> /\ llm_calls = 0 /\ llm_result = NoLLMResult
  /\ q_pc = "raised_search" =>
       /\ all_results = <<>> /\ reranked_results = <<>> /\ context_chunks = <<>>
       /\ llm_calls = 0 /\ llm_result = NoLLMResult
  /\ q_pc = "raised_llm" => (llm_calls = 1 /\ llm_result = NoLLMResult)
  /\ q_pc \in {"rerank", "context", "generate", "format", "done"} => SearchesMade
  /\ llm_calls <= 1
  /\ response # NoResponse =>
       (q_pc = "done" /\ llm_result # NoLLMResult
          /\ (llm_calls = 1 <=> context_chunks # <<>>))

\* the first partition returned candidates and the search of the second raised
C21_Witness ==
  /\ q_pc = "raised_search"
  /\ Len(categories) = 2 /\ Len(category_results) = 1
  /\ category_results[1].results # <<>>
  /\ response = NoResponse

(***************************************************************************)
(* The scores of the reranker.                                             *)
(***************************************************************************)
\* C22: the candidate at 0-based position r of the list given to
\* _rerank_results gets rerank_score = 0.7*similarity + 0.2*keyword_score
\* + 0.1*max(0, 0.1 - 0.01*r), where keyword_score = min(1.0, |Q \cap T|/|Q|
\* + 0.1*(number of words of Q \cap T longer than 6 characters)) for Q and T
\* the sets of lower-cased whitespace-separated words of the enriched query
\* and of the candidate text, and keyword_score = 0 when Q is empty; the
\* keyword_score is always in [0,1].  (Scores in 1/21000, keyword scores in
\* 1/840, the equation of the keyword score multiplied out by 10*|Q|.)
C22_RerankFormula ==
  Reranked =>
    \A j \in DOMAIN reranked_results :
      LET c == reranked_results[j]
          r == PositionOf(c.id) - 1
          Q == WordSet(enriched_query)
          T == WordSet(c.text)
          q == Cardinality(Q)
          m == Cardinality(Q \cap T)
          long == Cardinality({w \in Q \cap T : Len(w) > 6})
          bonus == IF r < 10 THEN 10 - r ELSE 0
      IN /\ 0 <= c.keyword_score /\ c.keyword_score <= 840
         /\ Q = {} => c.keyword_score = 0
         /\ Q # {} =>
              IF 10 * m + long * q >= 10 * q
              THEN c.keyword_score = 840
              ELSE 10 * q * c.keyword_score = 840 * (10 * m + long * q)
         /\ c.rerank_score = 21 * c.similarity + 5 * c.keyword_score + 21 * bonus

\* twelve candidates that hold every word of the query, one of them longer
\* than 6 characters: the keyword score is cut at 1.0 and the position bonus
\* of the last two is 0
C22_Witness ==
  /\ Reranked
  /\ Len(all_results) = 12
  /\ WordSet(enriched_query) # {}
  /\ \A j \in DOMAIN reranked_results :
       /\ WordSet(enriched_query) \subseteq WordSet(reranked_results[j].text)
       /\ reranked_results[j].keyword_score = 840
  /\ reranked_results[12].rerank_score = 21 * 630 + 5 * 840

(***************************************************************************)
(* The confidence reported for an answer.                                  *)
(***************************************************************************)
SimilaritiesOf(sources) == [i \in DOMAIN sources |-> sources[i].similarity]

\* C23: for a context whose chunks have similarities 0.9, 0.85, 0.8, 0.3, 0.2
\* and 0.1 in that order and no keyword match, the confidence reported is
\* 0.95, also when it is computed as _generate_response computes it, with the
\* rerank scores of the context.
C23_ScenarioConfidence ==
  (conf_pc = "returned" /\ SimilaritiesOf(conf_sources) = ScenarioSimilarities) =>
    conf_result = ConfidenceCap

\* the value the claim gives, with the rerank scores averaged over the first
\* j of them: confidence * k * j = 360 j S + 6 k R + 42000 k j below the cap,
\* where S sums the first k similarities and R the first j rerank scores
\* (confidence in 1/420000, similarities in 1/700, rerank scores in 1/21000)
IsBlend(k, j) ==
  LET S == SumSeq(SubSeq(SimilaritiesOf(conf_sources), 1, k))
      R == SumSeq(SubSeq(conf_rerank_scores.list, 1, j))
      bonus == IF Len(conf_sources) >= 3 THEN 42000 ELSE 0
      c == 360 * j * S + 6 * k * R + bonus * k * j
  IN IF c >= 399000 * k * j THEN conf_result = 399000 ELSE conf_result * k * j = c

\* the same without rerank scores: confidence * k = 600 S + 42000 k
IsPlain(k) ==
  LET S == SumSeq(SubSeq(SimilaritiesOf(conf_sources), 1, k))
      bonus == IF Len(conf_sources) >= 3 THEN 42000 ELSE 0
      c == 600 * S + bonus * k
  IN IF c >= 399000 * k THEN conf_result = 399000 ELSE conf_result * k = c

ScoresSupplied == conf_rerank_scores.given /\ conf_rerank_scores.list # <<>>

\* C24 as stated: for n >= 1 sources calculate_confidence returns min(0.95, c),
\* the similarities averaged over the first min(3, n) sources in the given
\* order, the bonus 0.1 if n >= 3, and, when a non-empty rerank score list is
\* supplied, the rerank scores averaged over the first min(3, n) of them.
C24_ConfidenceFormulaAsStated ==
  (conf_pc = "returned" /\ conf_sources # <<>>) =>
    LET k == Min(3, Len(conf_sources))
    IN IF ScoresSupplied
       THEN IsBlend(k, Min(k, Len(conf_rerank_scores.list)))
       ELSE IsPlain(k)

\* C24, amended: as stated, but the rerank scores are averaged over the first
\* min(3, m) of them, m the length of the rerank score list, which need not
\* be the number of sources.
C24_ConfidenceFormula ==
  (conf_pc = "returned" /\ conf_sources # <<>>) =>
    LET k == Min(3, Len(conf_sources))
    IN IF ScoresSupplied
       THEN IsBlend(k, Min(3, Len(conf_rerank_scores.list)))
       ELSE IsPlain(k)

\* two sources that are not in similarity order and three rerank scores that
\* differ: a blend below the cap
C24_Witness ==
  /\ conf_pc = "returned"
  /\ Len(conf_sources) = 2
  /\ conf_sources[1].similarity < conf_sources[2].similarity
  /\ Len(conf_rerank_scores.list) = 3
  /\ conf_rerank_scores.list[1] # conf_rerank_scores.list[3]
  /\ conf_result < ConfidenceCap

(***************************************************************************)
(* The page number of a chunk.                                             *)
(***************************************************************************)
PageAt(i, k) == blocks[chunks[i].window[k]].page_number

\* the number of blocks of chunk i that carry page p
PageBlocks(i, p) == Cardinality({k \in DOMAIN chunks[i].window : PageAt(i, k) = p})

\* the first position of chunk i's window that carries page p
FirstOnPage(i, p) == First({k \in DOMAIN chunks[i].window : PageAt(i, k) = p})

\* C25: the page_number of every chunk of the block chunker is a page number
\* carried by the largest number of blocks of the chunk's window; when
\* several page numbers are tied for the largest count, it is the tied value
\* that occurs first in the window.
C25_PageMode ==
  \A i \in DOMAIN chunks :
    LET p == chunks[i].page_number
        pages == {PageAt(i, k) : k \in DOMAIN chunks[i].window}
    IN /\ p \in pages
       /\ \A r \in pages : PageBlocks(i, r) <= PageBlocks(i, p)
       /\ \A r \in pages :
            PageBlocks(i, r) = PageBlocks(i, p) => FirstOnPage(i, p) <= FirstOnPage(i, r)

(***************************************************************************)
(* The order of the cap and the floor in context selection.                *)
(***************************************************************************)
ScoreAboveFloor(result) == result.rerank_score > RerankFloor

\* the spec's order: drop the entries at or below the floor, then take 5
FloorThenCap(results) ==
  LET kept == SubSeq(SelectSeq(results, ScoreAboveFloor), 1,
                     Min(5, Len(SelectSeq(results, ScoreAboveFloor))))
  IN [i \in DOMAIN kept |-> ContextEntry(kept[i])]

\* C26: on every output of _rerank_results, a list in non-increasing
\* rerank_score order, _prepare_context ("take the first 5, then drop the
\* entries with score <= 0.3") yields the same sequence as "drop the entries
\* with score <= 0.3, then take the first 5".
C26_CapAndFloorCommute ==
  ContextReady => context_chunks = FloorThenCap(reranked_results)

\* more than five candidates, some of the first five at or below the floor
\* and some above it
C26_Witness ==
  /\ ContextReady
  /\ Len(reranked_results) > ContextCap
  /\ \E i \in 1..ContextCap : ~ScoreAboveFloor(reranked_results[i])
  /\ context_chunks # <<>>
  /\ Len(context_chunks) < ContextCap

(***************************************************************************)
(* The similarity threshold and the rerank floor.                          *)
(***************************************************************************)
\* 0.7 * t > 0.3, for a threshold t in 1/700 and the floor in 1/21000
ThresholdAboveFloor == 21 * similarity_threshold > RerankFloor

\* C27: with a similarity_threshold t such that 0.7*t > 0.3 (the default 0.7
\* is one), every candidate the retriever returns gets rerank_score > 0.3, so
\* the floor removes none: the context set has exactly min(5, number of
\* retrieved candidates) entries and is empty if and only if the retriever
\* returned no candidate.
C27_FloorNeverBinds ==
  ThresholdAboveFloor =>
    /\ Reranked =>
         \A j \in DOMAIN reranked_results : reranked_results[j].rerank_score > RerankFloor
    /\ ContextReady =>
         /\ Len(context_chunks) = Min(5, Len(all_results))
         /\ context_chunks = <<>> <=> all_results = <<>>

\* the default settings, seven candidates retrieved, one of them exactly at
\* the threshold: five make the context
C27_Witness ==
  /\ ContextReady
  /\ similarity_threshold = DefaultSimilarityThreshold /\ top_k_chunks = DefaultTopK
  /\ Len(all_results) = 7
  /\ all_results[7].similarity = similarity_threshold
  /\ Len(context_chunks) = 5

(***************************************************************************)
(* EmbeddingService.embed_texts, the batch embedding of the chunk texts of *)
(* a document.  The embedding API answers each text with a vector, with no *)
(* vector, or by raising.                                                  *)
(***************************************************************************)
MaxEmbedTexts == 3
BatchSize == 50

ChunkTexts == {"t1", "t2"}
ApiOutcomes == {"vector", "empty", "raises"}

\* [0.0] * self.dimensions
ZeroEmbedding == [kind |-> "zeros"]

\* embed_text(text) raises what genai.embed_content raised
EmbedTextRaises(outcome) == outcome = "raises"

\* embed_text(text): the vector of the text, or [] with a warning
EmbedText(text, outcome) ==
  IF outcome = "empty" THEN [kind |-> "empty"] ELSE [kind |-> "vector", of |-> text]

\* _embed_batch(texts): "except Exception: ... embeddings.append([0.0] * self.dimensions)"
EmbedBatch(texts, outcomes) ==
  [i \in DOMAIN texts |->
     IF EmbedTextRaises(outcomes[i]) THEN ZeroEmbedding
     ELSE EmbedText(texts[i], outcomes[i])]

\* embed_texts: "for i in range(0, len(texts), batch_size)", from 1-based position i
RECURSIVE EmbedBatchesFrom(_, _, _)
EmbedBatchesFrom(texts, outcomes, i) ==
  IF i > Len(texts) THEN <<>>
  ELSE LET last == Min(i + BatchSize - 1, Len(texts))
       IN EmbedBatch(SubSeq(texts, i, last), SubSeq(outcomes, i, last))
            \o EmbedBatchesFrom(texts, outcomes, last + 1)

\* embed_texts(texts)
EmbedTexts(texts, outcomes) ==
  IF texts = <<>> THEN <<>> ELSE EmbedBatchesFrom(texts, outcomes, 1)

InitEmbed ==
  /\ emb_texts \in SeqsUpTo(ChunkTexts, MaxEmbedTexts)
  /\ emb_outcomes \in [DOMAIN emb_texts -> ApiOutcomes]
  /\ emb_result = NoEmbeddings
  /\ emb_pc = "call"
  /\ ChatIdle /\ DocsIdle
  /\ ChunkerIdle /\ CiteIdle /\ ConfIdle /\ QueryIdle

\* a call of embed_texts(texts); no exception leaves it
EmbedTextsCall ==
  /\ emb_pc = "call"
  /\ emb_result' = [returned |-> TRUE, embeddings |-> EmbedTexts(emb_texts, emb_outcomes)]
  /\ emb_pc' = "returned"
  /\ UNCHANGED <<emb_texts, emb_outcomes>>
  /\ UNCHANGED <<chunkerVars, citeVars, confVars, queryVars, chatVars, docVars>>

NextEmbed == EmbedTextsCall
SpecEmbed == InitEmbed /\ [][NextEmbed]_vars

\* C28: when the embedding API raises for one of the chunk texts during the
\* batch embedding of a document, embed_texts raises too: it does not return,
\* and no substitute vector stands for that chunk.
C28_EmbeddingFailurePropagates ==
  (emb_pc = "returned" /\ emb_result.returned) =>
    /\ \A i \in DOMAIN emb_outcomes : ~EmbedTextRaises(emb_outcomes[i])
    /\ \A i \in DOMAIN emb_result.embeddings : emb_result.embeddings[i] # ZeroEmbedding

(***************************************************************************)
(* The chat store of api/chat.py: the module's dict conversations and the  *)
(* handlers send_message, create_conversation and delete_conversation.     *)
(* A handler is a coroutine that never awaits, so that no other request is *)
(* served before it returns; a send_message runs process_chat_message step *)
(* by step in between.                                                     *)
(***************************************************************************)
MaxRequests == 2

\* ChatRequest.conversation_id left out
None == "None"

UserMessages == {<<"E", "0", "2">>, <<"m", "o", "t", "o", "r">>}

\* the ids str(uuid.uuid4()) gives
UUIDs == {"u1", "u2"}

\* requests to the default conversation, and requests to conversation u1 that
\* switch the memory off and may name a category
ChatRequests ==
  [message : UserMessages, conversation_id : {None, ""}, category : {""},
   memory_enabled : BOOLEAN]
    \cup [message : UserMessages, conversation_id : {"u1"}, category : {"", "safety"},
          memory_enabled : {FALSE}]

\* conversation_id = request.conversation_id or "default"
ConversationId(request) ==
  IF request.conversation_id \in {None, ""} THEN "default" ELSE request.conversation_id

\* conversations.get(conversation_id, [])
ConversationGet(conversation_id) ==
  IF conversation_id \in DOMAIN conversations THEN conversations[conversation_id]
  ELSE <<>>

\* history_dicts: the role and the content of each stored message
HistoryDicts(history) ==
  [i \in DOMAIN history |-> [role |-> history[i].role, content |-> history[i].content]]

\* ChatMessage(role, content, citations); request is the serial of the
\* send_message that built it, kept to tell messages of equal content apart
ChatMessage(role, content, citations, request) ==
  [role |-> role, content |-> content, citations |-> citations, request |-> request]

\* a store that keeps the answer of an exchange only
ExchangeAnswerOnly(stored, user_msg, assistant_msg) == Append(stored, assistant_msg)

\* conversations[conversation_id].append(user_msg); ....append(assistant_msg)
Exchange(stored, user_msg, assistant_msg) == Append(Append(stored, user_msg), assistant_msg)

\* the handler is over: the locals of process_chat_message are gone
PipelineReturned ==
  /\ q_message' = <<>> /\ q_category' = "" /\ q_history' = <<>>
  /\ q_memory_enabled' = FALSE
  /\ enriched_query' = <<>> /\ all_results' = <<>>
  /\ categories' = <<>> /\ category_pos' = 0 /\ category_results' = <<>>
  /\ searches' = <<>> /\ reranked_results' = <<>> /\ context_chunks' = <<>>
  /\ llm_calls' = 0 /\ llm_result' = NoLLMResult /\ response' = NoResponse
  /\ q_pc' = "idle"
  /\ UNCHANGED <<top_k_chunks, similarity_threshold, indexVars>>

notChatVars == <<chunkerVars, citeVars, confVars, embedVars, docVars>>

\* send_message up to the call of process_chat_message
SendMessage ==
  /\ chat_pc = "idle" /\ chat_serial < MaxRequests
  /\ \E request \in ChatRequests :
       LET conversation_id == ConversationId(request)
           history == ConversationGet(conversation_id)
       IN /\ chat_request' = [served |-> FALSE, conversation_id |-> conversation_id]
          /\ q_message' = request.message
          /\ q_category' = request.category
          /\ q_history' = HistoryDicts(history)
          /\ q_memory_enabled' = request.memory_enabled
  /\ chat_serial' = chat_serial + 1
  /\ chat_pc' = "processing"
  /\ q_pc' = "enrich"
  /\ UNCHANGED <<top_k_chunks, similarity_threshold, indexVars, enriched_query,
                 categories, category_pos, category_results, searches, all_results,
                 reranked_results, context_chunks, llm_calls, llm_result, response>>
  /\ UNCHANGED conversations
  /\ UNCHANGED notChatVars

\* send_message: get_rag_pipeline() raises, and the request is answered 500
GetRagPipelineRaises ==
  /\ chat_pc = "idle" /\ chat_serial < MaxRequests
  /\ chat_serial' = chat_serial + 1
  /\ chat_request' = [served |-> TRUE, status |-> 500]
  /\ UNCHANGED <<conversations, chat_pc>>
  /\ UNCHANGED queryVars
  /\ UNCHANGED notChatVars

\* send_message after process_chat_message returned: the two messages are stored
StoreExchange ==
  /\ chat_pc = "processing" /\ q_pc = "done"
  /\ LET conversation_id == chat_request.conversation_id
         user_msg == ChatMessage("user", q_message, <<>>, chat_serial)
         assistant_msg == ChatMessage("assistant", response.answer, response.citations,
                                      chat_serial)
     IN conversations' =
          [c \in DOMAIN conversations \cup {conversation_id} |->
             IF c = conversation_id
             THEN Exchange(ConversationGet(conversation_id), user_msg, assistant_msg)
             ELSE conversations[c]]
  /\ chat_request' = [served |-> TRUE, status |-> 200]
  /\ chat_pc' = "idle"
  /\ PipelineReturned
  /\ UNCHANGED chat_serial
  /\ UNCHANGED notChatVars

\* send_message, "except Exception as e": the request is answered 500
SendMessageFails ==
  /\ chat_pc = "processing" /\ Raised
  /\ chat_request' = [served |-> TRUE, status |-> 500]
  /\ chat_pc' = "idle"
  /\ PipelineReturned
  /\ UNCHANGED <<conversations, chat_serial>>
  /\ UNCHANGED notChatVars

\* create_conversation
CreateConversation ==
  /\ chat_pc = "idle"
  /\ \E conversation_id \in UUIDs \ DOMAIN conversations :
       conversations' = [c \in DOMAIN conversations \cup {conversation_id} |->
                           IF c = conversation_id THEN <<>> ELSE conversations[c]]
  /\ chat_request' = [served |-> TRUE, status |-> 200]
  /\ UNCHANGED <<chat_serial, chat_pc>>
  /\ UNCHANGED queryVars
  /\ UNCHANGED notChatVars

\* delete_conversation(conversation_id)
DeleteConversation ==
  /\ chat_pc = "idle"
  /\ \E conversation_id \in UUIDs \cup {"default"} :
       IF conversation_id \in DOMAIN conversations
       THEN /\ conversations' = [c \in DOMAIN conversations \ {conversation_id} |->
                                   conversations[c]]
            /\ chat_request' = [served |-> TRUE, status |-> 200]
       ELSE /\ chat_request' = [served |-> TRUE, status |-> 404]
            /\ UNCHANGED conversations
  /\ UNCHANGED <<chat_serial, chat_pc>>
  /\ UNCHANGED queryVars
  /\ UNCHANGED notChatVars

\* the application with the default settings over one indexed manual
InitChat ==
  /\ top_k_chunks = DefaultTopK
  /\ similarity_threshold = DefaultSimilarityThreshold
  /\ index_categories = <<"maintenance">>
  /\ index_items = [c \in {"maintenance"} |-> NearestFirst(PoolMaintenance)]
  /\ q_message = <<>> /\ q_category = "" /\ q_history = <<>> /\ q_memory_enabled = FALSE
  /\ enriched_query = <<>> /\ all_results = <<>>
  /\ QueryLocalsClear
  /\ q_pc = "idle"
  /\ ChatIdle
  /\ EmbedIdle /\ DocsIdle
  /\ ChunkerIdle /\ CiteIdle /\ ConfIdle

NextChat ==
  \/ SendMessage \/ GetRagPipelineRaises \/ StoreExchange \/ SendMessageFails
  \/ CreateConversation \/ DeleteConversation
  \/ EnrichQuery \/ EmbedQuery \/ EmbedQueryRaises
  \/ SearchCategory \/ ListCategories \/ SearchEach \/ MergeResults \/ VectorStoreRaises
  \/ Rerank \/ SelectContext
  \/ GenerateNoContext \/ GenerateWithLLM \/ LLMRaises
  \/ FormatResponse

SpecChat == InitChat /\ [][NextChat]_vars

(***************************************************************************)
(* Claims about the chat store.                                            *)
(***************************************************************************)
\* user messages at the odd positions (from 1), each followed by the assistant
\* message of the same request
WellFormedConversation(messages) ==
  /\ Len(messages) % 2 = 0
  /\ \A i \in DOMAIN messages :
       i % 2 = 1 =>
         /\ i + 1 <= Len(messages)
         /\ messages[i].role = "user"
         /\ messages[i + 1].role = "assistant"
         /\ messages[i + 1].request = messages[i].request

\* the store is changed by the step that ends a send_message whose
\* process_chat_message returned, and by it only while a request is processed:
\* the message and the answer returned are appended to the request's conversation
StoreStep ==
  (chat_pc = "processing" /\ conversations' # conversations) =>
    /\ q_pc = "done" /\ response.returned
    /\ LET conversation_id == chat_request.conversation_id
           stored == ConversationGet(conversation_id)
       IN /\ DOMAIN conversations' = DOMAIN conversations \cup {conversation_id}
          /\ \A c \in DOMAIN conversations \ {conversation_id} :
               conversations'[c] = conversations[c]
          /\ Len(conversations'[conversation_id]) = Len(stored) + 2
          /\ SubSeq(conversations'[conversation_id], 1, Len(stored)) = stored
          /\ LET user_msg == conversations'[conversation_id][Len(stored) + 1]
                 assistant_msg == conversations'[conversation_id][Len(stored) + 2]
             IN /\ user_msg.role = "user" /\ user_msg.content = q_message
                /\ assistant_msg.role = "assistant"
                /\ assistant_msg.content = response.answer

\* C29: after any sequence of send_message, create_conversation and
\* delete_conversation requests, every stored conversation has even length,
\* with a user message at each even position (from 0) immediately followed by
\* the assistant message answering it; the history handed to the pipeline for
\* a request never contains that request's own message; and a send_message
\* whose processing raises leaves the whole store unchanged.
C29_ChatStore ==
  /\ [](\A c \in DOMAIN conversations : WellFormedConversation(conversations[c]))
  /\ [](chat_pc = "processing" =>
          /\ q_history = HistoryDicts(ConversationGet(chat_request.conversation_id))
          /\ \A c \in DOMAIN conversations : \A i \in DOMAIN conversations[c] :
               conversations[c][i].request < chat_serial)
  /\ [][StoreStep]_vars
  /\ [][(chat_pc = "processing" /\ (Raised \/ Raised')) =>
          conversations' = conversations]_vars

\* a second message to a conversation that holds an exchange, with that
\* exchange as its history, failed in the language model, beside an empty
\* conversation that was created
C29_Witness ==
  /\ chat_pc = "processing" /\ q_pc = "raised_llm"
  /\ DOMAIN conversations = {"default", "u2"}
  /\ Len(conversations["default"]) = 2 /\ conversations["u2"] = <<>>
  /\ conversations["default"][2].content = <<"o", "k">>
  /\ Len(q_history) = 2 /\ chat_serial = 2

(***************************************************************************)
(* The document catalog of api/documents.py: the module's dict             *)
(* document_catalog, the handlers upload_document and delete_document, and *)
(* the collections of the vector index they write.                         *)
(*                                                                         *)
(* The handlers read a global name settings that the module never binds    *)
(* (only get_services imports it, locally): with settings_bound false the  *)
(* read raises NameError, as in the module as it stands; with              *)
(* settings_bound true the name is bound to the Settings of config.py.     *)
(***************************************************************************)
MaxDocuments == 3
MaxDocChunks == 2

FileNames == {<<"a", ".", "P", "D", "F">>, <<"a", ".", "t", "x", "t">>}

DocumentCategories == {"maintenance", "safety"}

\* what becomes of the processing of an upload: it succeeds, it fails before
\* the store is reached, or collection.add raises
UploadOutcomes == {"ok", "processing_fails", "add_fails"}

\* file.filename.lower().endswith('.pdf')
IsPdf(filename) == IsSuffix(<<".", "p", "d", "f">>, LowerText(filename))

\* the chunks of a document as they are stored: the id of the chunk and the
\* manual_id of its metadata.  The documents uploaded differ in content, and
\* so do the ids of their chunks.
DocumentChunks(document_id, chunk_count) ==
  [i \in 1..chunk_count |-> [id |-> <<document_id, i>>, manual_id |-> document_id]]

\* VectorService.get_collection(category): the collection is created when absent
CollectionsWith(category) ==
  IF category \in Range(index_categories) THEN index_categories
  ELSE Append(index_categories, category)

\* VectorService.add_documents: the items of each collection afterwards
ItemsAdded(category, added) ==
  [c \in Range(CollectionsWith(category)) |->
     IF c = category THEN StoredItems(c) \o added ELSE StoredItems(c)]

\* VectorService.delete_collection(category): the collections left
CollectionsWithout(category) ==
  LET Other(c) == c # category
  IN SelectSeq(index_categories, Other)

\* MetadataBuilder.build_document_metadata, then status and chunk_count set
DocumentInfo(document_id, filename, category, chunk_count) ==
  [id |-> document_id, filename |-> filename, category |-> category,
   status |-> "ready", chunk_count |-> chunk_count]

DocResult(op, status, document_id) ==
  [served |-> TRUE, op |-> op, status |-> status, document_id |-> document_id]

notDocVars == <<chunkerVars, citeVars, confVars, embedVars, chatVars>>
pipelineLocals == <<top_k_chunks, similarity_threshold, q_message, q_category, q_history,
                    q_memory_enabled, enriched_query, categories, category_pos,
                    category_results, searches, all_results, reranked_results,
                    context_chunks, llm_calls, llm_result, response, q_pc>>

\* upload_document(file, category)
UploadDocument ==
  /\ doc_serial < MaxDocuments
  /\ doc_serial' = doc_serial + 1
  /\ \E filename \in FileNames, category \in DocumentCategories,
        chunk_count \in 0..MaxDocChunks, outcome \in UploadOutcomes :
       LET document_id == doc_serial + 1
           new_chunks == DocumentChunks(document_id, chunk_count)
       IN IF ~IsPdf(filename)
          THEN /\ doc_result' = DocResult("upload", 400, document_id)
               /\ UNCHANGED <<document_catalog, indexVars>>
          ELSE IF ~settings_bound \/ outcome = "processing_fails"
          THEN /\ doc_result' = DocResult("upload", 500, document_id)
               /\ UNCHANGED <<document_catalog, indexVars>>
          ELSE IF new_chunks # <<>> /\ outcome = "add_fails"
          THEN /\ index_categories' = CollectionsWith(category)
               /\ index_items' = ItemsAdded(category, <<>>)
               /\ doc_result' = DocResult("upload", 500, document_id)
               /\ UNCHANGED document_catalog
          ELSE /\ IF new_chunks = <<>> THEN UNCHANGED indexVars
                  ELSE /\ index_categories' = CollectionsWith(category)
                       /\ index_items' = ItemsAdded(category, new_chunks)
               /\ document_catalog' =
                    [d \in DOMAIN document_catalog \cup {document_id} |->
                       IF d = document_id
                       THEN DocumentInfo(document_id, filename, category, chunk_count)
                       ELSE document_catalog[d]]
               /\ doc_result' = DocResult("upload", 200, document_id)
  /\ UNCHANGED settings_bound
  /\ UNCHANGED pipelineLocals
  /\ UNCHANGED notDocVars

\* delete_document(document_id); the call of delete_collection may fail, and
\* the handler goes on
DeleteDocument ==
  /\ \E document_id \in 1..MaxDocuments :
       IF document_id \notin DOMAIN document_catalog
       THEN /\ doc_result' = DocResult("delete", 404, document_id)
            /\ UNCHANGED <<document_catalog, indexVars>>
       ELSE LET category == document_catalog[document_id].category
            IN /\ \E deleted \in BOOLEAN :
                    IF deleted /\ category \in Range(index_categories)
                    THEN /\ index_categories' = CollectionsWithout(category)
                         /\ index_items' = [c \in Range(CollectionsWithout(category)) |->
                                              StoredItems(c)]
                    ELSE UNCHANGED indexVars
               /\ IF settings_bound
                  THEN /\ document_catalog' =
                            [d \in DOMAIN document_catalog \ {document_id} |->
                               document_catalog[d]]
                       /\ doc_result' = DocResult("delete", 200, document_id)
                  ELSE /\ doc_result' = DocResult("delete", 500, document_id)
                       /\ UNCHANGED document_catalog
  /\ UNCHANGED <<settings_bound, doc_serial>>
  /\ UNCHANGED pipelineLocals
  /\ UNCHANGED notDocVars

InitDocs ==
  /\ document_catalog = <<>>
  /\ settings_bound \in BOOLEAN
  /\ doc_serial = 0
  /\ doc_result = NoRequest
  /\ QueryIdle
  /\ EmbedIdle /\ ChatIdle
  /\ ChunkerIdle /\ CiteIdle /\ ConfIdle

NextDocs == UploadDocument \/ DeleteDocument

SpecDocs == InitDocs /\ [][NextDocs]_vars

\* the chunks of a document that its category's collection holds
IndexedChunks(document_id) ==
  LET items == StoredItems(document_catalog[document_id].category)
  IN {items[i].id : i \in {k \in DOMAIN items : items[k].manual_id = document_id}}

====
